---- MODULE Spec2Model ----
(***************************************************************************)
(* Grid transformation inference engine of ARC1:                           *)
(*   grid_ops.py            GridOperations (objects, object sub-grids)     *)
(*   transform_analysis.py  TransformationAnalyzer (per-pair analysis)     *)
(*   transform_predictor.py TransformationPredictor (reduce and apply)     *)
(*                                                                         *)
(* A grid (numpy 2-d array) is a function [0..h-1 -> [0..w-1 -> Nat]], so  *)
(* that grid[r][c] is the source's grid[r,c] with the same 0-based         *)
(* indices.  A Python dict is a function (record) on its keys, a list is a *)
(* sequence; dict equality is function equality (insertion order is kept   *)
(* apart where the code iterates a dict).                                  *)
(***************************************************************************)
EXTENDS Integers, Sequences, FiniteSets, TLC

VARIABLES
    pc,               \* position of the running call
    grid,             \* get_objects: the grid argument
    seen,             \* get_objects: the set `seen`
    objects,          \* get_objects: the list `objects`
    scan,             \* get_objects: row-major index of the next cell of the scan
    training,         \* predict_output: zip(training_inputs, training_outputs)
    input_grid,       \* predict_output: the test input
    transforms,       \* predict_output: the list of per-pair analyses
    consistent,       \* predict_output: result of _find_consistent_transforms
    prediction,       \* _apply_transforms: the grid being rewritten
    caller,           \* what the arrays passed to predict_output hold now
    buffer,           \* the memory the array `prediction` lives in
    results,          \* run_all_tests: the dict `results`
    grid_patterns,    \* analyze_pattern_relationships: the detector findings
    transformation_data,  \* analyze_pattern_relationships: the pair analysis
    hierarchy,        \* analyze_pattern_relationships: the levels found so far
    object_grid,      \* the array returned by get_object_grid
    self_hierarchy,   \* PatternHierarchy: the four lists of the instance
    invocation        \* EnhancedReasoning: the method running and its call

\* the variables of the pattern detectors and of the pattern hierarchy
pattern_vars == <<results, grid_patterns, transformation_data, hierarchy>>

\* the variables of EnhancedReasoning and of its PatternHierarchy instance
reasoning_vars == <<self_hierarchy, invocation>>

vars == <<pc, grid, seen, objects, scan, training, input_grid, transforms,
          consistent, prediction, caller, buffer, results, grid_patterns,
          transformation_data, hierarchy, object_grid, self_hierarchy, invocation>>

(***************************************************************************)
(* Bounds of the model.                                                    *)
(***************************************************************************)
\* cell values are 0..MaxVal (0 is the background)
MaxVal == 2
\* at most MaxPairs training pairs per task
MaxPairs == 2
\* task grids: a uniform grid with at most MaxPaint cells repainted
MaxPaint == 2
\* grids given as lists to validate_grid: at most MaxRows rows of at most
\* MaxCols cells each
MaxRows == 2
MaxCols == 2

\* value of a variable that the running call does not use
Unused == "unused"

(***************************************************************************)
(* numpy arrays                                                            *)
(***************************************************************************)
\* grid.shape[0]
H(g) == Cardinality(DOMAIN g)
\* grid.shape[1]
W(g) == Cardinality(DOMAIN g[0])
\* grid.shape
Shape(g) == <<H(g), W(g)>>
\* all (r, c) of a grid
Cells(g) == (0 .. H(g) - 1) \X (0 .. W(g) - 1)

\* np.array(rows) for a list of rows
Array(rows) ==
    [r \in 0 .. Len(rows) - 1 |-> [c \in 0 .. Len(rows[1]) - 1 |-> rows[r + 1][c + 1]]]

\* the cells of a grid in row-major order (np.argwhere order, boolean-mask order)
RowMajor(g) ==
    [k \in 1 .. H(g) * W(g) |-> <<(k - 1) \div W(g), (k - 1) % W(g)>>]

\* the cells of a sequence of cells that hold v, in order
RECURSIVE SelectCells(_, _, _)
SelectCells(g, cells, v) ==
    IF cells = <<>> THEN <<>>
    ELSE LET p == Head(cells)
             rest == SelectCells(g, Tail(cells), v)
         IN IF g[p[1]][p[2]] = v THEN <<p>> \o rest ELSE rest

\* np.argwhere(grid == v)
ArgWhere(g, v) == SelectCells(g, RowMajor(g), v)

\* np.rot90(grid, k=1): counterclockwise quarter turn
Rot90Once(g) ==
    [i \in 0 .. W(g) - 1 |-> [j \in 0 .. H(g) - 1 |-> g[j][W(g) - 1 - i]]]

\* np.rot90(grid, k)
RECURSIVE rot90(_, _)
rot90(g, k) == IF k % 4 = 0 THEN g ELSE Rot90Once(rot90(g, (k % 4) - 1))

\* np.flip(grid, axis): axis 0 reverses the rows, axis 1 the columns
flip(g, axis) ==
    IF axis = 0
    THEN [r \in DOMAIN g |-> g[H(g) - 1 - r]]
    ELSE [r \in DOMAIN g |-> [c \in DOMAIN g[r] |-> g[r][W(g) - 1 - c]]]

\* np.kron(grid, np.ones((f, f))): every cell becomes an f x f block
kron(g, f) ==
    [r \in 0 .. H(g) * f - 1 |-> [c \in 0 .. W(g) * f - 1 |-> g[r \div f][c \div f]]]

\* np.array_equal(a, b): equal shape and equal cells
array_equal(a, b) == Shape(a) = Shape(b) /\ a = b

\* the boolean array grid != 0
NonZeroMask(g) == [r \in DOMAIN g |-> [c \in DOMAIN g[r] |-> g[r][c] # 0]]

\* min / max of a non-empty set of integers
SetMin(S) == CHOOSE x \in S : \A y \in S : x <= y
SetMax(S) == CHOOSE x \in S : \A y \in S : x >= y

\* the set of elements of a sequence
Range(s) == {s[i] : i \in DOMAIN s}

(***************************************************************************)
(* GridOperations.get_objects                                              *)
(***************************************************************************)
\* a variant of flood_fill that never visits the left neighbour (r, c-1);
\* C2 tells it from flood_fill
RECURSIVE flood_fill_no_left(_, _, _, _, _)
flood_fill_no_left(g, sn, r, c, value) ==
    IF r < 0 \/ r >= H(g) \/ c < 0 \/ c >= W(g)
    THEN [coords |-> <<>>, seen |-> sn]
    ELSE IF g[r][c] # value \/ <<r, c>> \in sn
    THEN [coords |-> <<>>, seen |-> sn]
    ELSE LET s0 == sn \cup {<<r, c>>}
             dn == flood_fill_no_left(g, s0, r + 1, c, value)
             up == flood_fill_no_left(g, dn.seen, r - 1, c, value)
             rt == flood_fill_no_left(g, up.seen, r, c + 1, value)
         IN [coords |-> <<<<r, c>>>> \o dn.coords \o up.coords \o rt.coords,
             seen |-> rt.seen]

\* flood_fill(r, c, value): the closure variable `seen` is threaded through;
\* the result carries the returned coords and the `seen` it leaves behind
RECURSIVE flood_fill(_, _, _, _, _)
flood_fill(g, sn, r, c, value) ==
    IF r < 0 \/ r >= H(g) \/ c < 0 \/ c >= W(g)
    THEN [coords |-> <<>>, seen |-> sn]
    ELSE IF g[r][c] # value \/ <<r, c>> \in sn
    THEN [coords |-> <<>>, seen |-> sn]
    ELSE LET s0 == sn \cup {<<r, c>>}
             dn == flood_fill(g, s0, r + 1, c, value)
             up == flood_fill(g, dn.seen, r - 1, c, value)
             rt == flood_fill(g, up.seen, r, c + 1, value)
             lt == flood_fill(g, rt.seen, r, c - 1, value)
         IN [coords |-> <<<<r, c>>>> \o dn.coords \o up.coords \o rt.coords \o lt.coords,
             seen |-> lt.seen]

\* the dict appended to `objects` for the coords of one flood fill;
\* center is kept doubled (min + max), the source halves it into a float
MakeObject(value, coords) ==
    LET rs == {coords[i][1] : i \in DOMAIN coords}
        cs == {coords[i][2] : i \in DOMAIN coords}
    IN [value |-> value,
        coords |-> coords,
        min_r |-> SetMin(rs), max_r |-> SetMax(rs),
        min_c |-> SetMin(cs), max_c |-> SetMax(cs),
        size |-> Len(coords),
        dimensions |-> <<SetMax(rs) - SetMin(rs) + 1, SetMax(cs) - SetMin(cs) + 1>>,
        center |-> <<SetMax(rs) + SetMin(rs), SetMax(cs) + SetMin(cs)>>]

\* a variant of IsSeed that starts a fill from background cells too;
\* C1 tells it from IsSeed
IsSeedAnyValue(g, sn, r, c) == <<r, c>> \notin sn

\* line 34, the test of the scan loop: an unseen cell that is not background
IsSeed(g, sn, r, c) == <<r, c>> \notin sn /\ g[r][c] # 0

\* one iteration of the scan loop body at cell (r, c)
ScanStep(g, st, r, c) ==
    IF IsSeed(g, st.seen, r, c)
    THEN LET ff == flood_fill(g, st.seen, r, c, g[r][c])
         IN IF ff.coords # <<>>
            THEN [seen |-> ff.seen,
                  objects |-> Append(st.objects, MakeObject(g[r][c], ff.coords))]
            ELSE [seen |-> ff.seen, objects |-> st.objects]
    ELSE st

\* the scan loop from row-major index k on
RECURSIVE ScanFrom(_, _, _)
ScanFrom(g, st, k) ==
    IF k >= H(g) * W(g) THEN st
    ELSE ScanFrom(g, ScanStep(g, st, k \div W(g), k % W(g)), k + 1)

\* get_objects(grid)
get_objects(g) == ScanFrom(g, [seen |-> {}, objects |-> <<>>], 0).objects

\* a variant of get_object_grid that returns the bounding-box slice as it
\* is; C20 tells it from get_object_grid
get_object_grid_unmasked(g, obj) ==
    [r \in 0 .. obj.max_r - obj.min_r |->
        [c \in 0 .. obj.max_c - obj.min_c |-> g[r + obj.min_r][c + obj.min_c]]]

\* get_object_grid(grid, obj): the bounding-box slice with the cells that are
\* not coords of the object set to 0
get_object_grid(g, obj) ==
    [r \in 0 .. obj.max_r - obj.min_r |->
        [c \in 0 .. obj.max_c - obj.min_c |->
            IF <<r + obj.min_r, c + obj.min_c>> \in Range(obj.coords)
            THEN g[r + obj.min_r][c + obj.min_c]
            ELSE 0]]

(***************************************************************************)
(* TransformationAnalyzer                                                  *)
(***************************************************************************)
\* GridOperations.count_values(grid): the keys of the returned dict
\* (np.unique yields them in ascending order)
count_values(g) == {g[p[1]][p[2]] : p \in Cells(g)}

\* _get_position_type(pos, shape)
get_position_type(pos, shape) ==
    IF pos[1] \in {0, shape[1] - 1} /\ pos[2] \in {0, shape[2] - 1}
    THEN "corner"
    ELSE IF pos[1] \in {0, shape[1] - 1} \/ pos[2] \in {0, shape[2] - 1}
    THEN "edge"
    ELSE "interior"

\* lines 36-43: position_based, the output values at the cells of in_val
\* grouped by position type, each list in row-major order
PositionBased(input, output, in_val) ==
    LET positions == ArgWhere(input, in_val)
        KeyAt(i) == get_position_type(positions[i], Shape(input))
        keys == {KeyAt(i) : i \in DOMAIN positions}
        OutAt(p) == output[p[1]][p[2]]
        RECURSIVE Collect(_, _)
        Collect(key, i) ==
            IF i > Len(positions) THEN <<>>
            ELSE IF KeyAt(i) = key
            THEN <<OutAt(positions[i])>> \o Collect(key, i + 1)
            ELSE Collect(key, i + 1)
    IN [key \in keys |-> Collect(key, 1)]

\* lines 46-49: the position types whose output values are all the same
Conditional(position_based) ==
    LET single == {k \in DOMAIN position_based :
                      Cardinality(Range(position_based[k])) = 1}
    IN [k \in single |-> position_based[k][1]]

\* lines 24-60: the mapping entry of one non-zero input value
ValueMapping(input, output, in_val) ==
    LET positions == ArgWhere(input, in_val)
        unique_out == {output[positions[i][1]][positions[i][2]] : i \in DOMAIN positions}
        position_based == PositionBased(input, output, in_val)
        conditional == Conditional(position_based)
    IN IF Cardinality(unique_out) = 1
       THEN [type |-> "direct", to |-> CHOOSE v \in unique_out : TRUE]
       ELSE IF DOMAIN conditional # {}
       THEN [type |-> "conditional", conditions |-> conditional]
       ELSE [type |-> "complex", position_values |-> position_based]

\* a variant of MappedValues that keeps the background value; C4 tells it
\* from MappedValues
MappedValuesWithBackground(input) == count_values(input)

\* lines 20-22: the input values that get an entry (background is skipped)
MappedValues(input) == count_values(input) \ {0}

\* line 25, output_grid[mask]: numpy raises IndexError when the boolean mask
\* has not the shape of the indexed array
MaskRaises(input, output) == MappedValues(input) # {} /\ Shape(input) # Shape(output)

\* analyze_value_mappings(input_grid, output_grid), when it does not raise
analyze_value_mappings(input, output) ==
    [in_val \in MappedValues(input) |-> ValueMapping(input, output, in_val)]

\* _find_object_transform(obj1, obj2)
find_object_transform(obj1, obj2) ==
    LET h1 == H(obj1)
        w1 == W(obj1)
        h2 == H(obj2)
        w2 == W(obj2)
        unique1 == count_values(obj1) \ {0}
        unique2 == count_values(obj2) \ {0}
        rots == {k \in 1 .. 3 : /\ Shape(rot90(obj1, k)) = Shape(obj2)
                                /\ NonZeroMask(rot90(obj1, k)) = NonZeroMask(obj2)}
    IN IF h1 = h2 /\ w1 = w2 /\ array_equal(obj1, obj2)
       THEN [type |-> "none"]
       ELSE IF h1 = h2 /\ w1 = w2 /\ Cardinality(unique1) = 1 /\ Cardinality(unique2) = 1
       THEN [type |-> "value_change",
             from |-> CHOOSE v \in unique1 : TRUE,
             to |-> CHOOSE v \in unique2 : TRUE]
       ELSE IF h2 % h1 = 0 /\ w2 % w1 = 0 /\ h2 \div h1 = w2 \div w1
       THEN [type |-> "scale", factor |-> h2 \div h1]
       ELSE IF rots # {}
       THEN [type |-> "rotation", degrees |-> SetMin(rots) * 90]
       ELSE IF array_equal(NonZeroMask(flip(obj1, 0)), NonZeroMask(obj2))
       THEN [type |-> "flip", axis |-> "horizontal"]
       ELSE IF array_equal(NonZeroMask(flip(obj1, 1)), NonZeroMask(obj2))
       THEN [type |-> "flip", axis |-> "vertical"]
       ELSE [type |-> "complex"]

\* lines 76-88: the matches of one input object, in the order of
\* output_objects, the candidates of type none left out
Matches(input, output, in_obj, output_objects) ==
    LET in_grid == get_object_grid(input, in_obj)
        TransformTo(j) ==
            find_object_transform(in_grid, get_object_grid(output, output_objects[j]))
        RECURSIVE From(_)
        From(j) ==
            IF j > Len(output_objects) THEN <<>>
            ELSE IF TransformTo(j).type # "none"
            THEN <<[output_object |-> output_objects[j], transform |-> TransformTo(j)]>>
                 \o From(j + 1)
            ELSE From(j + 1)
    IN From(1)

\* analyze_object_transformations(input_grid, output_grid)
analyze_object_transformations(input, output) ==
    LET input_objects == get_objects(input)
        output_objects == get_objects(output)
        MatchesOf(i) == Matches(input, output, input_objects[i], output_objects)
        RECURSIVE From(_)
        From(i) ==
            IF i > Len(input_objects) THEN <<>>
            ELSE IF MatchesOf(i) # <<>>
            THEN <<[input_object |-> input_objects[i], matches |-> MatchesOf(i)]>>
                 \o From(i + 1)
            ELSE From(i + 1)
    IN [object_count_change |-> Len(output_objects) - Len(input_objects),
        object_mappings |-> From(1)]

\* a variant of _find_global_transform that tries the flips before the
\* rotations; C5 tells it from find_global_transform
find_global_transform_flip_first(grid1, grid2) ==
    LET h1 == H(grid1)
        w1 == W(grid1)
        h2 == H(grid2)
        w2 == W(grid2)
        rots == {k \in 1 .. 3 : array_equal(rot90(grid1, k), grid2)}
    IN IF h1 = h2 /\ w1 = w2 /\ array_equal(flip(grid1, 0), grid2)
       THEN [type |-> "flip", axis |-> "horizontal"]
       ELSE IF h1 = h2 /\ w1 = w2 /\ array_equal(flip(grid1, 1), grid2)
       THEN [type |-> "flip", axis |-> "vertical"]
       ELSE IF h1 = h2 /\ w1 = w2 /\ rots # {}
       THEN [type |-> "rotation", degrees |-> SetMin(rots) * 90]
       ELSE IF h2 % h1 = 0 /\ w2 % w1 = 0 /\ h2 \div h1 = w2 \div w1
       THEN [type |-> "scale", factor |-> h2 \div h1]
       ELSE [type |-> "none"]

\* _find_global_transform(grid1, grid2)
find_global_transform(grid1, grid2) ==
    LET h1 == H(grid1)
        w1 == W(grid1)
        h2 == H(grid2)
        w2 == W(grid2)
        rots == {k \in 1 .. 3 : array_equal(rot90(grid1, k), grid2)}
    IN IF h1 = h2 /\ w1 = w2 /\ rots # {}
       THEN [type |-> "rotation", degrees |-> SetMin(rots) * 90]
       ELSE IF h1 = h2 /\ w1 = w2 /\ array_equal(flip(grid1, 0), grid2)
       THEN [type |-> "flip", axis |-> "horizontal"]
       ELSE IF h1 = h2 /\ w1 = w2 /\ array_equal(flip(grid1, 1), grid2)
       THEN [type |-> "flip", axis |-> "vertical"]
       ELSE IF h2 % h1 = 0 /\ w2 % w1 = 0 /\ h2 \div h1 = w2 \div w1
       THEN [type |-> "scale", factor |-> h2 \div h1]
       ELSE [type |-> "none"]

\* _get_relative_position(obj1, obj2): dx and dy are kept doubled, like the
\* centers; distance and angle are functions of dx and dy and are left out
get_relative_position(obj1, obj2) ==
    [dx |-> obj2.center[2] - obj1.center[2],
     dy |-> obj2.center[1] - obj1.center[1]]

\* the score of _find_matching_object for one candidate
MatchScore(obj, other) ==
    (IF obj.value = other.value THEN 1 ELSE 0)
    + (IF obj.size = other.size THEN 1 ELSE 0)
    + (IF obj.dimensions = other.dimensions THEN 1 ELSE 0)

\* Python's None, told from an object dict by its single key
None == [none |-> TRUE]
IsNone(x) == "none" \in DOMAIN x

\* _find_matching_object(obj, objects): the first candidate of the best
\* score, None when no score is positive
find_matching_object(obj, objs) ==
    LET best == SetMax({0} \cup {MatchScore(obj, objs[j]) : j \in DOMAIN objs})
    IN IF best = 0 THEN None
       ELSE objs[SetMin({j \in DOMAIN objs : MatchScore(obj, objs[j]) = best})]

\* lines 110-126: the entries of relative_positions for the pairs (i, j), i < j,
\* in the order of the two loops
RelativePositions(input_objects, output_objects) ==
    LET n == Len(input_objects)
        Entry(i, j) ==
            LET in_rel == get_relative_position(input_objects[i], input_objects[j])
                out_obj1 == find_matching_object(input_objects[i], output_objects)
                out_obj2 == find_matching_object(input_objects[j], output_objects)
            IN IF ~IsNone(out_obj1) /\ ~IsNone(out_obj2)
                  /\ in_rel # get_relative_position(out_obj1, out_obj2)
               THEN <<[objects |-> <<input_objects[i].value, input_objects[j].value>>,
                       from |-> in_rel,
                       to |-> get_relative_position(out_obj1, out_obj2)]>>
               ELSE <<>>
        RECURSIVE Walk(_, _)
        Walk(i, j) ==
            IF i >= n THEN <<>>
            ELSE IF j > n THEN Walk(i + 1, i + 2)
            ELSE Entry(i, j) \o Walk(i, j + 1)
    IN Walk(1, 2)

\* analyze_spatial_transformations(input_grid, output_grid)
analyze_spatial_transformations(input, output) ==
    LET input_objects == get_objects(input)
        output_objects == get_objects(output)
    IN [global_transform |-> find_global_transform(input, output),
        relative_positions |->
            IF Len(input_objects) > 1 /\ Len(input_objects) = Len(output_objects)
            THEN RelativePositions(input_objects, output_objects)
            ELSE <<>>]

\* transform_predictor.py lines 22-26: the analysis dict of one training pair
Analysis(pair) ==
    [value_mappings |-> analyze_value_mappings(pair.input, pair.output),
     object_transforms |-> analyze_object_transformations(pair.input, pair.output),
     spatial_transforms |-> analyze_spatial_transformations(pair.input, pair.output)]

(***************************************************************************)
(* TransformationPredictor._find_consistent_transforms                     *)
(***************************************************************************)
\* the empty dict {}
EmptyDict == [k \in {} |-> k]

\* a variant of ConsistentValueMappings that keeps every mapping of the
\* first analysis; C7 tells it from ConsistentValueMappings
ConsistentValueMappingsFirstOnly(ts) == ts[1].value_mappings

\* lines 49-57: the value mappings of the first analysis that every other
\* analysis has too, with an equal entry

ConsistentValueMappings(ts) ==
    LET first_mappings == ts[1].value_mappings
        keep == {val \in DOMAIN first_mappings :
                    \A i \in 2 .. Len(ts) :
                        /\ val \in DOMAIN ts[i].value_mappings
                        /\ ts[i].value_mappings[val] = first_mappings[val]}
    IN [val \in keep |-> first_mappings[val]]

\* a variant of ObjectMappingConsistent without the tests of lines 68 and 70
\* on the mapping of the first analysis; C9 tells it from ObjectMappingConsistent
ObjectMappingConsistentAnyMatches(ts, mapping) ==
    \A i \in 2 .. Len(ts) :
        \E k \in DOMAIN ts[i].object_transforms.object_mappings :
            LET m == ts[i].object_transforms.object_mappings[k]
            IN Len(m.matches) = 1
               /\ m.matches[1].transform = mapping.matches[1].transform

\* lines 69-83: does the object mapping of the first analysis go into the
\* consistent mappings
ObjectMappingConsistent(ts, mapping) ==
    /\ Len(mapping.matches) = 1
    /\ mapping.matches[1].transform.type # "complex"
    /\ \A i \in 2 .. Len(ts) :
           \E k \in DOMAIN ts[i].object_transforms.object_mappings :
               LET m == ts[i].object_transforms.object_mappings[k]
               IN Len(m.matches) = 1
                  /\ m.matches[1].transform = mapping.matches[1].transform

\* lines 67-88: obj_mappings
ConsistentObjectMappings(ts) ==
    LET first == ts[1].object_transforms.object_mappings
        RECURSIVE From(_)
        From(k) ==
            IF k > Len(first) THEN <<>>
            ELSE IF ObjectMappingConsistent(ts, first[k])
            THEN <<[input_value |-> first[k].input_object.value,
                    transform |-> first[k].matches[1].transform]>> \o From(k + 1)
            ELSE From(k + 1)
    IN From(1)

\* lines 60-88: consistent['object_transforms']
ConsistentObjectTransforms(ts) ==
    LET first_obj_trans == ts[1].object_transforms
    IN IF \A i \in 2 .. Len(ts) :
              ts[i].object_transforms.object_count_change
                  = first_obj_trans.object_count_change
       THEN [object_count_change |-> first_obj_trans.object_count_change,
             mappings |-> ConsistentObjectMappings(ts)]
       ELSE [mappings |-> ConsistentObjectMappings(ts)]

\* lines 98-113: rel_pos_changes
ConsistentRelativePositions(ts) ==
    LET first == ts[1].spatial_transforms.relative_positions
        Found(rel_change) ==
            \A i \in 2 .. Len(ts) :
                \E k \in DOMAIN ts[i].spatial_transforms.relative_positions :
                    LET other_change == ts[i].spatial_transforms.relative_positions[k]
                    IN /\ rel_change.objects = other_change.objects
                       /\ rel_change.from = other_change.from
                       /\ rel_change.to = other_change.to
        RECURSIVE From(_)
        From(k) ==
            IF k > Len(first) THEN <<>>
            ELSE IF Found(first[k]) THEN <<first[k]>> \o From(k + 1)
            ELSE From(k + 1)
    IN From(1)

\* lines 91-114: consistent['spatial_transforms']
ConsistentSpatialTransforms(ts) ==
    LET first_spatial == ts[1].spatial_transforms
    IN IF \A i \in 2 .. Len(ts) :
              ts[i].spatial_transforms.global_transform = first_spatial.global_transform
       THEN [global_transform |-> first_spatial.global_transform,
             relative_positions |-> ConsistentRelativePositions(ts)]
       ELSE [relative_positions |-> ConsistentRelativePositions(ts)]

\* _find_consistent_transforms(transforms)
find_consistent_transforms(ts) ==
    IF ts = <<>> THEN EmptyDict
    ELSE [value_mappings |-> ConsistentValueMappings(ts),
          object_transforms |-> ConsistentObjectTransforms(ts),
          spatial_transforms |-> ConsistentSpatialTransforms(ts)]

(***************************************************************************)
(* TransformationPredictor._apply_transforms                               *)
(***************************************************************************)
\* the outcome of a step: the grid it leaves, or the exception it raised
Returned(g) == [raised |-> "", value |-> g]
Raised(exception) == [raised |-> exception, value |-> <<>>]
HasRaised(x) == x.raised # ""

\* the array with the cells of the set `where` set to v
SetCells(g, where, v) ==
    [r \in DOMAIN g |-> [c \in DOMAIN g[r] |-> IF <<r, c>> \in where THEN v ELSE g[r][c]]]

\* a variant of GlobalTrans that finds no global transform in any hypothesis;
\* C11 tells it from GlobalTrans
GlobalTransNone(cons) == [type |-> "none"]

\* line 123: transforms['spatial_transforms'].get('global_transform', {'type': 'none'})
GlobalTrans(cons) ==
    IF "global_transform" \in DOMAIN cons.spatial_transforms
    THEN cons.spatial_transforms.global_transform
    ELSE [type |-> "none"]

\* lines 123-129: the global transform first; indexing the empty dict with
\* 'spatial_transforms' raises KeyError
apply_global(pred, cons) ==
    IF "spatial_transforms" \notin DOMAIN cons THEN Raised("KeyError")
    ELSE LET global_trans == GlobalTrans(cons)
         IN IF global_trans.type = "rotation"
            THEN Returned(rot90(pred, global_trans.degrees \div 90))
            ELSE IF global_trans.type = "flip"
            THEN Returned(flip(pred, IF global_trans.axis = "horizontal" THEN 0 ELSE 1))
            ELSE IF global_trans.type = "scale"
            THEN Returned(kron(pred, global_trans.factor))
            ELSE Returned(pred)

\* lines 133-143: one value mapping applied to the current prediction
ApplyValueMapping(pred, val, mapping) ==
    LET mask == {p \in Cells(pred) : pred[p[1]][p[2]] = val}
    IN IF mapping.type = "direct"
       THEN SetCells(pred, mask, mapping.to)
       ELSE IF mapping.type = "conditional"
       THEN [r \in DOMAIN pred |-> [c \in DOMAIN pred[r] |->
                IF <<r, c>> \in mask
                   /\ get_position_type(<<r, c>>, Shape(pred)) \in DOMAIN mapping.conditions
                THEN mapping.conditions[get_position_type(<<r, c>>, Shape(pred))]
                ELSE pred[r][c]]]
       ELSE pred

\* a variant of apply_value_mappings that applies no mapping; C6 tells it
\* from apply_value_mappings
apply_value_mappings_skipped(pred, value_mappings) == pred

\* lines 132-143: the value mappings one after the other, in the order of the
\* dict (the keys were inserted in ascending order, line 16 and np.unique)
apply_value_mappings(pred, value_mappings) ==
    LET RECURSIVE Loop(_, _)
        Loop(p, todo) ==
            IF todo = {} THEN p
            ELSE Loop(ApplyValueMapping(p, SetMin(todo), value_mappings[SetMin(todo)]),
                      todo \ {SetMin(todo)})
    IN Loop(pred, DOMAIN value_mappings)

\* lines 154-163: the transformed obj_grid
TransformObjectGrid(obj_grid, transform) ==
    IF transform.type = "value_change"
    THEN [r \in DOMAIN obj_grid |-> [c \in DOMAIN obj_grid[r] |->
             IF obj_grid[r][c] # 0 THEN transform.to ELSE 0]]
    ELSE IF transform.type = "scale" THEN kron(obj_grid, transform.factor)
    ELSE IF transform.type = "rotation" THEN rot90(obj_grid, transform.degrees \div 90)
    ELSE IF transform.type = "flip"
    THEN flip(obj_grid, IF transform.axis = "horizontal" THEN 0 ELSE 1)
    ELSE obj_grid

\* lines 150-169: one mapping applied to one object of the current prediction
ApplyObjectMapping(pred, obj, mapping) ==
    IF mapping.input_value # obj.value THEN pred
    ELSE LET obj_grid == TransformObjectGrid(get_object_grid(pred, obj), mapping.transform)
         IN IF Shape(obj_grid) = <<obj.max_r + 1 - obj.min_r, obj.max_c + 1 - obj.min_c>>
            THEN [r \in DOMAIN pred |-> [c \in DOMAIN pred[r] |->
                     IF /\ obj.min_r <= r /\ r <= obj.max_r
                        /\ obj.min_c <= c /\ c <= obj.max_c
                     THEN obj_grid[r - obj.min_r][c - obj.min_c]
                     ELSE pred[r][c]]]
            ELSE pred

\* lines 146-169: the objects of the prediction as it is before the loop,
\* every mapping tried on every object
apply_object_transforms(pred, mappings) ==
    LET objs == get_objects(pred)
        RECURSIVE Loop(_, _, _)
        Loop(p, i, k) ==
            IF i > Len(objs) THEN p
            ELSE IF k > Len(mappings) THEN Loop(p, i + 1, 1)
            ELSE Loop(ApplyObjectMapping(p, objs[i], mappings[k]), i, k + 1)
    IN Loop(pred, 1, 1)

\* the sum of the elements of a sequence of integers
RECURSIVE Sum(_)
Sum(s) == IF s = <<>> THEN 0 ELSE Head(s) + Sum(Tail(s))

\* lines 173-205 for one rel_change: does the move of obj2 reach line 205 with
\* a position to write.  The means of the positions are kept as sums and
\* counts; with D = 2 * n1 * n2 the offsets dy and dx are dyN / D and dxN / D.
\* new_positions is a float array, and line 205 indexes with it.
MoveWrites(pred, rel_change) ==
    LET pos1 == ArgWhere(pred, rel_change.objects[1])
        pos2 == ArgWhere(pred, rel_change.objects[2])
        n1 == Len(pos1)
        n2 == Len(pos2)
        D == 2 * n1 * n2
        curDy == 2 * (Sum([i \in DOMAIN pos2 |-> pos2[i][1]]) * n1
                      - Sum([i \in DOMAIN pos1 |-> pos1[i][1]]) * n2)
        curDx == 2 * (Sum([i \in DOMAIN pos2 |-> pos2[i][2]]) * n1
                      - Sum([i \in DOMAIN pos1 |-> pos1[i][2]]) * n2)
        dyN == rel_change.to.dy * n1 * n2 - curDy
        dxN == rel_change.to.dx * n1 * n2 - curDx
        Valid(p) == /\ p[1] * D + dyN >= 0 /\ p[1] * D + dyN < H(pred) * D
                    /\ p[2] * D + dxN >= 0 /\ p[2] * D + dxN < W(pred) * D
    IN /\ n1 > 0 /\ n2 > 0
       /\ (dxN # 0 \/ dyN # 0)
       /\ \E i \in DOMAIN pos2 : Valid(pos2[i])

\* lines 172-206: a move that has a valid position raises IndexError (numpy
\* takes no float array as an index) before prediction is replaced; every
\* other rel_change leaves the prediction as it is
apply_relative_positions(pred, rel_changes) ==
    IF \E k \in DOMAIN rel_changes : MoveWrites(pred, rel_changes[k])
    THEN Raised("IndexError")
    ELSE Returned(pred)

(***************************************************************************)
(* Memory: which array a write lands in                                    *)
(***************************************************************************)
\* a variant of PredictionBuffer in which prediction is the input array
\* itself; C12 tells it from PredictionBuffer
PredictionBufferAliased == "input_grid"

\* line 120, prediction = input_grid.copy(): prediction has memory of its own
PredictionBuffer == "own"

\* no array yet
NoBuffer == [of |-> "none", view |-> [type |-> "none"]]

\* lines 124-129: np.rot90 and np.flip return a view of their argument,
\* np.kron returns a new array
BufferAfterGlobal(cons) ==
    LET global_trans == GlobalTrans(cons)
    IN IF global_trans.type = "scale"
       THEN [of |-> "own", view |-> [type |-> "none"]]
       ELSE IF global_trans.type \in {"rotation", "flip"}
       THEN [of |-> PredictionBuffer, view |-> global_trans]
       ELSE [of |-> PredictionBuffer, view |-> [type |-> "none"]]

\* the array a view shows as g, seen without the view
Unview(view, g) ==
    IF view.type = "rotation" THEN rot90(g, 4 - view.degrees \div 90)
    ELSE IF view.type = "flip" THEN flip(g, IF view.axis = "horizontal" THEN 0 ELSE 1)
    ELSE g

\* lines 136, 143 and 169 write into prediction in place: what the caller's
\* arrays hold once prediction holds pred
WrittenThrough(buf, cal, pred) ==
    IF buf.of = "input_grid"
    THEN [cal EXCEPT !.input_grid = Unview(buf.view, pred)]
    ELSE cal

\* grid_ops.py lines 63-70: get_object_grid masks a copy of the slice, the
\* grid it is given stays as it is
GridAfterObjectGrid(g, obj) == g

\* transform_analysis.py lines 74-79: get_object_grid is called for the
\* objects of a training grid; the grid as these calls leave it
GridAfterObjectGrids(g) ==
    LET objs == get_objects(g)
        RECURSIVE Loop(_, _)
        Loop(cur, i) ==
            IF i > Len(objs) THEN cur ELSE Loop(GridAfterObjectGrid(cur, objs[i]), i + 1)
    IN Loop(g, 1)

(***************************************************************************)
(* Grids the model draws its inputs from                                   *)
(***************************************************************************)
Values == 0 .. MaxVal

\* every grid of a shape over the values
AllGrids(h, w) == [0 .. h - 1 -> [0 .. w - 1 -> Values]]

\* the non-zero values of the grid are numbered in the order of their first
\* occurrence in row-major order: 1 comes first, then 2, and so on
FirstOccurrenceOrdered(g) ==
    \A p \in Cells(g) :
        g[p[1]][p[2]] > 1 =>
            \E q \in Cells(g) :
                /\ q[1] * W(g) + q[2] < p[1] * W(g) + p[2]
                /\ g[q[1]][q[2]] = g[p[1]][p[2]] - 1

\* the grids given to get_objects: every grid of the small shapes, and the
\* 3 x 3 grids up to a renaming of their non-zero values
ObjectShapes == {<<1, 1>>, <<1, 3>>, <<2, 2>>, <<3, 2>>}
ObjectGrids ==
    UNION {AllGrids(s[1], s[2]) : s \in ObjectShapes}
    \cup {g \in AllGrids(3, 3) : FirstOccurrenceOrdered(g)}

\* a training pair
Pair(in_rows, out_rows) == [input |-> Array(in_rows), output |-> Array(out_rows)]

\* the grids of a shape over the values vs that differ from a uniform grid in
\* at most MaxPaint cells
PaintedGrids(h, w, vs) ==
    {g \in [0 .. h - 1 -> [0 .. w - 1 -> vs]] :
        \E b \in vs :
            Cardinality({p \in (0 .. h - 1) \X (0 .. w - 1) : g[p[1]][p[2]] # b})
                <= MaxPaint}

\* single training pairs for the analysis: an input of a small shape (the
\* 2 x 2 inputs up to a renaming of their non-zero values) with every output
\* of a small shape, equal or not; and a 3 x 3 input with at most MaxPaint
\* cells set to 1 with every 3 x 3 output over {0, 1} that differs from a
\* uniform grid in at most MaxPaint cells
SmallGrids == AllGrids(1, 1) \cup AllGrids(1, 3) \cup AllGrids(2, 2)
SmallInputs ==
    AllGrids(1, 1) \cup AllGrids(1, 3)
    \cup {g \in AllGrids(2, 2) : FirstOccurrenceOrdered(g)}
Grids3x3 == PaintedGrids(3, 3, {0, 1})
Inputs3x3 ==
    {g \in Grids3x3 : Cardinality({p \in Cells(g) : g[p[1]][p[2]] # 0}) <= MaxPaint}
AnalysisPairs ==
    {[input |-> i, output |-> o] : i \in SmallInputs, o \in SmallGrids}
    \cup {[input |-> i, output |-> o] : i \in Inputs3x3, o \in Grids3x3}

\* training pairs of the tasks given to predict_output:
\* a row of ones to the rows 1 b c over {1, 2} (direct and conditional value
\* mappings of 1, the conditions covering every category or the edge only)
RowPairs ==
    {Pair(<<<<1, 1, 1>>>>, <<<<1, b, c>>>>) : b \in {1, 2}, c \in {1, 2}}
\* a cell to the full grid (scale) for two values, a bar turned (rotation,
\* and a complex value mapping), a cell recoloured
BlockPairs ==
    {Pair(<<<<1, 0>>, <<0, 0>>>>, <<<<1, 1>>, <<1, 1>>>>),
     Pair(<<<<2, 0>>, <<0, 0>>>>, <<<<2, 2>>, <<2, 2>>>>),
     Pair(<<<<1, 1>>, <<0, 0>>>>, <<<<1, 0>>, <<1, 0>>>>),
     Pair(<<<<1, 0>>, <<0, 0>>>>, <<<<2, 0>>, <<0, 0>>>>)}
\* two objects moved, an empty input, several matches, an unclassified match,
\* the mirror scenario, an output of another shape, and two values swapped
OtherPairs ==
    {Pair(<<<<1, 0>>, <<0, 2>>>>, <<<<1, 2>>, <<0, 0>>>>),
     Pair(<<<<0, 0>>, <<0, 0>>>>, <<<<0, 0>>, <<0, 0>>>>),
     Pair(<<<<0, 0>>, <<0, 0>>>>, <<<<0, 1>>, <<0, 0>>>>),
     Pair(<<<<1, 0>>, <<0, 0>>>>, <<<<2, 0>>, <<0, 2>>>>),
     Pair(<<<<1, 0>>, <<0, 0>>>>, <<<<2, 2>>, <<0, 0>>>>),
     Pair(<<<<1, 0, 0>>, <<0, 0, 0>>, <<0, 0, 0>>>>, <<<<0, 0, 1>>, <<0, 0, 0>>, <<0, 0, 0>>>>),
     Pair(<<<<1, 1, 1>>>>, <<<<1, 1>>, <<1, 1>>>>),
     Pair(<<<<1, 2>>>>, <<<<2, 1>>>>)}
TaskPairs == RowPairs \cup BlockPairs \cup OtherPairs

\* the lists of at most n elements of S
RECURSIVE ListsUpTo(_, _)
ListsUpTo(S, n) ==
    IF n = 0 THEN {<<>>}
    ELSE LET shorter == ListsUpTo(S, n - 1)
         IN shorter \cup {Append(l, x) : l \in shorter, x \in S}

\* test inputs of predict_output
TestGrids ==
    {Array(<<<<0, 1, 0>>, <<0, 0, 0>>, <<0, 0, 0>>>>),
     Array(<<<<1, 2, 1>>>>),
     Array(<<<<1, 0>>, <<0, 2>>>>),
     Array(<<<<1, 1>>, <<1, 2>>>>),
     Array(<<<<0, 0>>, <<0, 0>>>>)}

(***************************************************************************)
(* get_objects as a process: one step per cell of the scan                 *)
(***************************************************************************)
InitObjects ==
    /\ pc = "scan"
    /\ grid \in ObjectGrids
    /\ seen = {}
    /\ objects = <<>>
    /\ scan = 0
    /\ training = Unused /\ input_grid = Unused /\ transforms = Unused
    /\ consistent = Unused /\ prediction = Unused
    /\ caller = Unused /\ buffer = Unused
    /\ results = Unused /\ grid_patterns = Unused
    /\ transformation_data = Unused /\ hierarchy = Unused
    /\ object_grid = Unused
    /\ self_hierarchy = Unused /\ invocation = Unused

\* lines 32-54: the body of the two scan loops for one cell
ScanCell ==
    /\ pc = "scan"
    /\ scan < H(grid) * W(grid)
    /\ LET st == ScanStep(grid, [seen |-> seen, objects |-> objects],
                          scan \div W(grid), scan % W(grid))
       IN /\ seen' = st.seen
          /\ objects' = st.objects
    /\ scan' = scan + 1
    /\ UNCHANGED <<pc, grid, training, input_grid, transforms, consistent, prediction,
                   caller, buffer>>
    /\ UNCHANGED <<pattern_vars, object_grid, reasoning_vars>>

\* line 55: return objects
ReturnObjects ==
    /\ pc = "scan"
    /\ scan = H(grid) * W(grid)
    /\ pc' = "objects_returned"
    /\ UNCHANGED <<caller, buffer>>
    /\ UNCHANGED <<grid, seen, objects, scan, training, input_grid, transforms,
                   consistent, prediction>>
    /\ UNCHANGED <<pattern_vars, object_grid, reasoning_vars>>

NextObjects == ScanCell \/ ReturnObjects

SpecObjects == InitObjects /\ [][NextObjects]_vars

(***************************************************************************)
(* validate_task_data.validate_grid, then the analysis of the grid         *)
(***************************************************************************)
\* data_handlers.py lines 46-59, validate_grid(grid, grid_name) for a list of
\* lists of numbers: the name of the exception it raises, "" when it returns
validate_grid(rows) ==
    IF rows = <<>> THEN "TaskError"
    ELSE IF \E i \in DOMAIN rows : Len(rows[i]) # Len(rows[1]) THEN "TaskError"
    ELSE ""

\* the lists of lists given to validate_grid, well-formed or not
RawGrids == ListsUpTo(ListsUpTo({0, 1}, MaxCols), MaxRows)

InitValidate ==
    /\ pc = "validate"
    /\ grid \in RawGrids
    /\ objects = Unused
    /\ seen = Unused /\ scan = Unused
    /\ training = Unused /\ input_grid = Unused /\ transforms = Unused
    /\ consistent = Unused /\ prediction = Unused
    /\ caller = Unused /\ buffer = Unused
    /\ results = Unused /\ grid_patterns = Unused
    /\ transformation_data = Unused /\ hierarchy = Unused
    /\ object_grid = Unused
    /\ self_hierarchy = Unused /\ invocation = Unused

\* recipe_tester.py line 70: validate_task_data(task_data) on a grid of the task
ValidateGrid ==
    /\ pc = "validate"
    /\ pc' = IF validate_grid(grid) = "" THEN "validated"
             ELSE "validate_" \o validate_grid(grid)
    /\ UNCHANGED <<grid, seen, objects, scan, training, input_grid, transforms,
                   consistent, prediction, caller, buffer>>
    /\ UNCHANGED <<pattern_vars, object_grid, reasoning_vars>>

\* the grid that passed the validation goes to the analysis: np.array(grid),
\* then get_objects
ExtractObjects ==
    /\ pc = "validated"
    /\ objects' = get_objects(Array(grid))
    /\ pc' = "analysed"
    /\ UNCHANGED <<grid, seen, scan, training, input_grid, transforms,
                   consistent, prediction, caller, buffer>>
    /\ UNCHANGED <<pattern_vars, object_grid, reasoning_vars>>

NextValidate == ValidateGrid \/ ExtractObjects

SpecValidate == InitValidate /\ [][NextValidate]_vars

(***************************************************************************)
(* predict_output as a process                                             *)
(***************************************************************************)
\* lines 21-27: one iteration of the loop over the training pairs; the
\* value-mapping analysis is evaluated first and may raise
AnalyzePair ==
    /\ pc = "analyze"
    /\ Len(transforms) < Len(training)
    /\ LET pair == training[Len(transforms) + 1]
       IN IF MaskRaises(pair.input, pair.output)
          THEN /\ pc' = "analyze_IndexError"
               /\ UNCHANGED <<transforms, caller>>
          ELSE /\ transforms' = Append(transforms, Analysis(pair))
               /\ caller' = [caller EXCEPT !.training[Len(transforms) + 1] =
                                 [input |-> GridAfterObjectGrids(pair.input),
                                  output |-> GridAfterObjectGrids(pair.output)]]
               /\ UNCHANGED pc
    /\ UNCHANGED <<grid, seen, objects, scan, training, input_grid, consistent, prediction,
                   buffer>>
    /\ UNCHANGED <<pattern_vars, object_grid, reasoning_vars>>

\* line 30: consistent = self._find_consistent_transforms(transforms)
FindConsistent ==
    /\ pc = "analyze"
    /\ Len(transforms) = Len(training)
    /\ consistent' = find_consistent_transforms(transforms)
    /\ pc' = "apply_global"
    /\ UNCHANGED <<grid, seen, objects, scan, training, input_grid, transforms, prediction,
                   caller, buffer>>
    /\ UNCHANGED <<pattern_vars, object_grid, reasoning_vars>>

\* lines 120-129: prediction = input_grid.copy(), then the global transform
ApplyGlobal ==
    /\ pc = "apply_global"
    /\ LET res == apply_global(input_grid, consistent)
       IN IF HasRaised(res)
          THEN /\ pc' = "apply_" \o res.raised
               /\ buffer' = [of |-> PredictionBuffer, view |-> [type |-> "none"]]
               /\ UNCHANGED prediction
          ELSE /\ pc' = "apply_values"
               /\ prediction' = res.value
               /\ buffer' = BufferAfterGlobal(consistent)
    /\ UNCHANGED <<grid, seen, objects, scan, training, input_grid, transforms, consistent,
                   caller>>
    /\ UNCHANGED <<pattern_vars, object_grid, reasoning_vars>>

\* lines 131-143: the value mappings
ApplyValueMappings ==
    /\ pc = "apply_values"
    /\ prediction' = apply_value_mappings(prediction, consistent.value_mappings)
    /\ caller' = WrittenThrough(buffer, caller, prediction')
    /\ pc' = "apply_objects"
    /\ UNCHANGED <<grid, seen, objects, scan, training, input_grid, transforms, consistent,
                   buffer>>
    /\ UNCHANGED <<pattern_vars, object_grid, reasoning_vars>>

\* lines 145-169: the object transformations (.get('mappings', []))
ApplyObjectTransforms ==
    /\ pc = "apply_objects"
    /\ prediction' = apply_object_transforms(
           prediction,
           IF "mappings" \in DOMAIN consistent.object_transforms
           THEN consistent.object_transforms.mappings ELSE <<>>)
    /\ caller' = WrittenThrough(buffer, caller, prediction')
    /\ pc' = "apply_relative"
    /\ UNCHANGED <<grid, seen, objects, scan, training, input_grid, transforms, consistent,
                   buffer>>
    /\ UNCHANGED <<pattern_vars, object_grid, reasoning_vars>>

\* lines 171-208: the relative position changes (.get('relative_positions', [])),
\* then return prediction
ApplyRelativePositions ==
    /\ pc = "apply_relative"
    /\ LET res == apply_relative_positions(
                      prediction,
                      IF "relative_positions" \in DOMAIN consistent.spatial_transforms
                      THEN consistent.spatial_transforms.relative_positions ELSE <<>>)
       IN IF HasRaised(res)
          THEN pc' = "apply_" \o res.raised /\ UNCHANGED prediction
          ELSE pc' = "returned" /\ prediction' = res.value
    /\ UNCHANGED <<grid, seen, objects, scan, training, input_grid, transforms, consistent,
                   caller, buffer>>
    /\ UNCHANGED <<pattern_vars, object_grid, reasoning_vars>>

\* predict_output(input_grid, training_inputs, training_outputs)
Init ==
    /\ pc = "analyze"
    /\ training \in ListsUpTo(TaskPairs, MaxPairs)
    /\ input_grid \in TestGrids
    /\ transforms = <<>>
    /\ consistent = Unused
    /\ prediction = Unused
    /\ caller = [input_grid |-> input_grid, training |-> training]
    /\ buffer = NoBuffer
    /\ grid = Unused /\ seen = Unused /\ objects = Unused /\ scan = Unused
    /\ results = Unused /\ grid_patterns = Unused
    /\ transformation_data = Unused /\ hierarchy = Unused
    /\ object_grid = Unused
    /\ self_hierarchy = Unused /\ invocation = Unused

Next ==
    \/ AnalyzePair
    \/ FindConsistent
    \/ ApplyGlobal
    \/ ApplyValueMappings
    \/ ApplyObjectTransforms
    \/ ApplyRelativePositions

Spec == Init /\ [][Next]_vars

\* the analysis and the reduction for a task of one training pair
InitAnalysis ==
    /\ pc = "analyze"
    /\ \E pair \in AnalysisPairs : training = <<pair>>
    /\ input_grid = Unused
    /\ transforms = <<>>
    /\ consistent = Unused
    /\ prediction = Unused
    /\ caller = [input_grid |-> input_grid, training |-> training]
    /\ buffer = NoBuffer
    /\ grid = Unused /\ seen = Unused /\ objects = Unused /\ scan = Unused
    /\ results = Unused /\ grid_patterns = Unused
    /\ transformation_data = Unused /\ hierarchy = Unused
    /\ object_grid = Unused
    /\ self_hierarchy = Unused /\ invocation = Unused

NextAnalysis == AnalyzePair \/ FindConsistent

SpecAnalysis == InitAnalysis /\ [][NextAnalysis]_vars

(***************************************************************************)
(* PatternTester (pattern_testing.py): the four detectors                  *)
(***************************************************************************)
\* grid[r1:r2, c1:c2] for 0 <= r1 < r2 <= H and 0 <= c1 < c2 <= W
Slice(g, r1, r2, c1, c2) ==
    [r \in 0 .. r2 - r1 - 1 |-> [c \in 0 .. c2 - c1 - 1 |-> g[r1 + r][c1 + c]]]

\* list(range(a, b))
range(a, b) == [k \in 1 .. b - a |-> a + k - 1]

\* the concatenation of a list of lists
RECURSIVE Flatten(_)
Flatten(ss) == IF ss = <<>> THEN <<>> ELSE Head(ss) \o Flatten(Tail(ss))

\* lines 45-54: the row splits i whose two halves mirror each other
HorizontalReflectionAt(g, i) ==
    /\ i = H(g) - i
    /\ array_equal(Slice(g, 0, i, 0, W(g)), flip(Slice(g, i, H(g), 0, W(g)), 0))

\* lines 57-66: the column splits i whose two halves mirror each other
VerticalReflectionAt(g, i) ==
    /\ i = W(g) - i
    /\ array_equal(Slice(g, 0, H(g), 0, i), flip(Slice(g, 0, H(g), i, W(g)), 1))

\* line 70: np.array_equal(grid, np.rot90(grid, k=k))
RotationalAt(g, k) == array_equal(g, rot90(g, k))

\* test_symmetry(grid), lines 37-77
test_symmetry(g) ==
    LET hs == SelectSeq(range(1, H(g)), LAMBDA i : HorizontalReflectionAt(g, i))
        vs == SelectSeq(range(1, W(g)), LAMBDA i : VerticalReflectionAt(g, i))
        ks == SelectSeq(<<2, 4>>, LAMBDA k : RotationalAt(g, k))
        types ==
            [n \in DOMAIN hs |-> [type |-> "horizontal_reflection", position |-> hs[n]]]
            \o [n \in DOMAIN vs |-> [type |-> "vertical_reflection", position |-> vs[n]]]
            \o [n \in DOMAIN ks |->
                   [type |-> "rotational_" \o ToString(360 \div ks[n]), order |-> ks[n]]]
    IN [symmetry_found |-> types # <<>>, symmetry_types |-> types]

\* greatest common divisor of two naturals, not both 0
RECURSIVE Gcd(_, _)
Gcd(a, b) == IF b = 0 THEN a ELSE Gcd(b, a % b)

\* the floats nan and inf, written like the fractions 0/0 and 1/0
nan == <<0, 0>>
inf == <<1, 0>>

\* the float a / b of two non-negative integers (numpy true division):
\* nan for 0 / 0, inf for a / 0, else the fraction in lowest terms
Divide(a, b) ==
    IF b = 0 THEN (IF a = 0 THEN nan ELSE inf)
    ELSE <<a \div Gcd(a, b), b \div Gcd(a, b)>>

\* np.diff(row) of a list of integers
diff(row) == [k \in 1 .. Len(row) - 1 |-> row[k + 1] - row[k]]

\* row[1:] / row[:-1]
Ratios(row) == [k \in 1 .. Len(row) - 1 |-> Divide(row[k + 1], row[k])]

\* lines 88-106 (rows) and 110-126 (columns): the findings of one line of the
\* grid, `location` being row_i or col_i
ProgressionsOf(row, location) ==
    LET diffs == diff(row)
        ratios == Ratios(row)
        arithmetic ==
            IF Cardinality(Range(diffs)) = 1
            THEN <<[type |-> "arithmetic", location |-> location,
                    difference |-> diffs[1]]>>
            ELSE <<>>
        geometric ==
            IF /\ Cardinality({k \in DOMAIN row : row[k] # 0}) > 1
               /\ Cardinality(Range(ratios) \ {nan}) = 1
            THEN <<[type |-> "geometric", location |-> location, ratio |-> ratios[1]]>>
            ELSE <<>>
    IN arithmetic \o geometric

\* row i and column i of a grid as lists
RowOf(g, i) == [k \in 1 .. W(g) |-> g[i][k - 1]]
ColOf(g, i) == [k \in 1 .. H(g) |-> g[k - 1][i]]

\* test_progression(grid), lines 79-128
test_progression(g) ==
    LET types ==
            Flatten([n \in 1 .. H(g) |->
                        ProgressionsOf(RowOf(g, n - 1), "row_" \o ToString(n - 1))])
            \o Flatten([n \in 1 .. W(g) |->
                           ProgressionsOf(ColOf(g, n - 1), "col_" \o ToString(n - 1))])
    IN [progression_found |-> types # <<>>, progression_types |-> types]

\* block.tolist()
tolist(g) == [r \in 1 .. H(g) |-> [c \in 1 .. W(g) |-> g[r - 1][c - 1]]]

\* lines 140-170: the findings for one block size h x w
RepetitionsOf(g, h, w) ==
    LET block == Slice(g, 0, h, 0, w)
        horizontal_blocks ==
            [n \in 1 .. W(g) \div w |-> Slice(g, 0, h, (n - 1) * w, n * w)]
        vertical_blocks ==
            [n \in 1 .. H(g) \div h |-> Slice(g, (n - 1) * h, n * h, 0, w)]
        horizontal ==
            IF /\ W(g) % w = 0
               /\ \A n \in DOMAIN horizontal_blocks :
                      array_equal(block, horizontal_blocks[n])
            THEN <<[type |-> "horizontal_repeat", block |-> tolist(block),
                    block_size |-> <<h, w>>, repetitions |-> Len(horizontal_blocks)]>>
            ELSE <<>>
        vertical ==
            IF /\ H(g) % h = 0
               /\ \A n \in DOMAIN vertical_blocks :
                      array_equal(block, vertical_blocks[n])
            THEN <<[type |-> "vertical_repeat", block |-> tolist(block),
                    block_size |-> <<h, w>>, repetitions |-> Len(vertical_blocks)]>>
            ELSE <<>>
    IN horizontal \o vertical

\* test_repetition(grid), lines 130-172
test_repetition(g) ==
    LET hmax == H(g) \div 2
        wmax == W(g) \div 2
        patterns ==
            Flatten([n \in 1 .. hmax * wmax |->
                        RepetitionsOf(g, ((n - 1) \div wmax) + 1, ((n - 1) % wmax) + 1)])
    IN [repetition_found |-> patterns # <<>>, patterns |-> patterns]

\* |x|
Abs(x) == IF x < 0 THEN -x ELSE x

\* lines 186-225: the findings for one value of the grid
SpatialOf(g, val) ==
    LET coords == ArgWhere(g, val)
        \* np.diff(coords, axis=0)
        diffs == [k \in 1 .. Len(coords) - 1 |->
                     <<coords[k + 1][1] - coords[k][1], coords[k + 1][2] - coords[k][2]>>]
        diag_diffs == [k \in DOMAIN diffs |-> <<Abs(diffs[k][1]), Abs(diffs[k][2])>>]
        linear ==
            IF Cardinality(Range(diffs)) = 1
            THEN <<[type |-> "linear_arrangement", value |-> val,
                    direction |-> diffs[1], count |-> Len(coords)]>>
            ELSE <<>>
        diagonal ==
            IF /\ Cardinality(Range(diag_diffs)) = 1
               /\ \A k \in DOMAIN diag_diffs : diag_diffs[k][1] = diag_diffs[k][2]
            THEN <<[type |-> "diagonal_pattern", value |-> val,
                    direction |-> IF diffs[1][1] * diffs[1][2] > 0
                                  THEN "positive" ELSE "negative",
                    count |-> Len(coords)]>>
            ELSE <<>>
        min_r == SetMin({p[1] : p \in Range(coords)})
        max_r == SetMax({p[1] : p \in Range(coords)})
        min_c == SetMin({p[2] : p \in Range(coords)})
        max_c == SetMax({p[2] : p \in Range(coords)})
        rectangular ==
            IF /\ Len(coords) >= 4
               /\ \A r \in min_r .. max_r, c \in min_c .. max_c :
                      g[r][c] # 0 => g[r][c] = val
            THEN <<[type |-> "rectangular_arrangement", value |-> val,
                    dimensions |-> <<max_r - min_r + 1, max_c - min_c + 1>>,
                    position |-> <<min_r, min_c>>]>>
            ELSE <<>>
    IN IF Len(coords) > 1 THEN linear \o diagonal \o rectangular ELSE <<>>

\* a finite set of integers as the ascending list (np.unique)
RECURSIVE Ascending(_)
Ascending(S) == IF S = {} THEN <<>> ELSE <<SetMin(S)>> \o Ascending(S \ {SetMin(S)})

\* test_spatial_relations(grid), lines 174-227
test_spatial_relations(g) ==
    LET unique_values == Ascending(count_values(g) \ {0})
        patterns == Flatten([n \in DOMAIN unique_values |-> SpatialOf(g, unique_values[n])])
    IN [spatial_patterns_found |-> patterns # <<>>, patterns |-> patterns]

\* test_pattern(grid, pattern_type), lines 21-35
test_pattern(g, pattern_type) ==
    CASE pattern_type = "symmetry" -> test_symmetry(g)
      [] pattern_type = "progression" -> test_progression(g)
      [] pattern_type = "repetition" -> test_repetition(g)
      [] pattern_type = "spatial" -> test_spatial_relations(g)

\* line 233: the pattern types in the order run_all_tests goes through them
PatternTypes == <<"symmetry", "progression", "repetition", "spatial">>

\* run_all_tests(grid), lines 229-239
run_all_tests(g) == [t \in Range(PatternTypes) |-> test_pattern(g, t)]

\* the grids given to the detectors
DetectGrids ==
    AllGrids(1, 3) \cup AllGrids(2, 2) \cup PaintedGrids(2, 3, Values) \cup Grids3x3

(***************************************************************************)
(* run_all_tests as a process: one step per detector                       *)
(***************************************************************************)
InitDetect ==
    /\ pc = "run_all_tests"
    /\ grid \in DetectGrids
    /\ results = EmptyDict
    /\ seen = Unused /\ objects = Unused /\ scan = Unused
    /\ training = Unused /\ input_grid = Unused /\ transforms = Unused
    /\ consistent = Unused /\ prediction = Unused
    /\ caller = Unused /\ buffer = Unused
    /\ grid_patterns = Unused /\ transformation_data = Unused /\ hierarchy = Unused
    /\ object_grid = Unused
    /\ self_hierarchy = Unused /\ invocation = Unused

\* lines 233-237: one iteration of the loop over the pattern types
TestPattern ==
    /\ pc = "run_all_tests"
    /\ Cardinality(DOMAIN results) < Len(PatternTypes)
    /\ LET pattern_type == PatternTypes[Cardinality(DOMAIN results) + 1]
       IN results' = results @@ (pattern_type :> test_pattern(grid, pattern_type))
    /\ UNCHANGED <<pc, grid, seen, objects, scan, training, input_grid, transforms,
                   consistent, prediction, caller, buffer, grid_patterns,
                   transformation_data, hierarchy>>
    /\ UNCHANGED <<object_grid, reasoning_vars>>

\* line 239: return results
ReturnResults ==
    /\ pc = "run_all_tests"
    /\ Cardinality(DOMAIN results) = Len(PatternTypes)
    /\ pc' = "tests_returned"
    /\ UNCHANGED <<grid, seen, objects, scan, training, input_grid, transforms,
                   consistent, prediction, caller, buffer>>
    /\ UNCHANGED <<pattern_vars, object_grid, reasoning_vars>>

NextDetect == TestPattern \/ ReturnResults

SpecDetect == InitDetect /\ [][NextDetect]_vars

(***************************************************************************)
(* PatternHierarchy (pattern_hierarchy.py)                                 *)
(*                                                                         *)
(* A confidence is a float of the source; the model holds it in            *)
(* thousandths (0.5 is 500), the products of the source being exact in     *)
(* thousandths for the values that occur.                                  *)
(***************************************************************************)
\* lines 11-16: PatternLevel, members by value
ATOMIC == 1
COMPOSITE == 2
STRUCTURAL == 3
META == 4

\* PatternLevel(value).name
LevelName(level) ==
    CASE level = ATOMIC -> "ATOMIC"
      [] level = COMPOSITE -> "COMPOSITE"
      [] level = STRUCTURAL -> "STRUCTURAL"
      [] level = META -> "META"

\* lines 18-29: Pattern(type, level, properties, confidence, sub_patterns)
Pattern(type, level, properties, confidence, sub_patterns) ==
    [type |-> type, level |-> level, properties |-> properties,
     confidence |-> confidence, sub_patterns |-> sub_patterns]

\* the families of findings, in the order _extract_patterns reads them, with
\* the key of the found flag and the key of the list of findings
Families ==
    <<[type |-> "symmetry", found |-> "symmetry_found", list |-> "symmetry_types"],
      [type |-> "progression", found |-> "progression_found", list |-> "progression_types"],
      [type |-> "repetition", found |-> "repetition_found", list |-> "patterns"],
      [type |-> "spatial", found |-> "spatial_patterns_found", list |-> "patterns"]>>

\* d.get(key, default)
Get(dict, key, default) == IF key \in DOMAIN dict THEN dict[key] ELSE default

\* lines 74-82 (and 85-93, 96-104, 107-115): the patterns of one family
ExtractFamily(gp, family) ==
    IF family.type \in DOMAIN gp /\ Get(gp[family.type], family.found, FALSE)
    THEN LET findings == Get(gp[family.type], family.list, <<>>)
         IN [n \in DOMAIN findings |->
                [type |-> family.type, subtype |-> findings[n].type,
                 properties |-> findings[n]]]
    ELSE <<>>

\* _extract_patterns(grid_patterns), lines 69-117
extract_patterns(gp) ==
    Flatten([n \in DOMAIN Families |-> ExtractFamily(gp, Families[n])])

\* a variant of _calculate_pattern_confidence that counts in percent instead
\* of fractions of one; C17 tells it from calculate_pattern_confidence
calculate_pattern_confidence_percent(pattern) ==
    IF pattern.type = "symmetry" THEN 80000 ELSE 50000

\* _calculate_pattern_confidence(pattern), lines 211-234
calculate_pattern_confidence(pattern) ==
    LET props == pattern.properties
        confidence ==
            CASE pattern.type = "symmetry" -> 500 + 300
              [] pattern.type = "progression" ->
                     IF "sequence" \in DOMAIN props
                        /\ Cardinality(Range(diff(props.sequence))) = 1
                     THEN 500 + 300 ELSE 500
              [] pattern.type = "repetition" ->
                     IF Get(props, "count", 0) > 2 THEN 500 + 200 ELSE 500
              [] pattern.type = "spatial" ->
                     IF "regularity" \in DOMAIN props
                     THEN 500 + (props.regularity * 3) \div 10 ELSE 500
              [] OTHER -> 500
    IN IF confidence < 1000 THEN confidence ELSE 1000

\* _identify_atomic_patterns(patterns), lines 119-135
identify_atomic_patterns(patterns) ==
    [n \in DOMAIN patterns |->
        Pattern(patterns[n].type \o "_" \o patterns[n].subtype, ATOMIC,
                patterns[n].properties, calculate_pattern_confidence(patterns[n]), <<>>)]

\* type.split('_')[0] of the type of an atomic pattern: the family, the four
\* family names holding no underscore
FirstSegment(atomic, type) ==
    LET made == {n \in DOMAIN atomic : atomic[n].type = type}
        family == {Families[f].type : f \in DOMAIN Families}
    IN CHOOSE t \in family :
           \E n \in made : type = t \o "_" \o atomic[n].properties.type

\* _patterns_compatible(p1, p2), lines 236-251, for two patterns of the list
\* `atomic`: the shared keys are compared starting with `type`, which every
\* finding holds
patterns_compatible(atomic, p1, p2) ==
    IF FirstSegment(atomic, p1.type) = FirstSegment(atomic, p2.type) THEN FALSE
    ELSE IF p1.properties.type # p2.properties.type THEN FALSE
    ELSE \A prop \in (DOMAIN p1.properties \cap DOMAIN p2.properties) \ {"type"} :
             p1.properties[prop] = p2.properties[prop]

\* _determine_interaction(p1, p2), lines 261-279
determine_interaction(p1, p2) ==
    IF "position" \in DOMAIN p1.properties /\ "position" \in DOMAIN p2.properties
    THEN (IF p1.properties.position = p2.properties.position
          THEN "overlapping" ELSE "separate")
    ELSE IF "value" \in DOMAIN p1.properties /\ "value" \in DOMAIN p2.properties
    THEN (IF p1.properties.value = p2.properties.value
          THEN "same_value" ELSE "different_values")
    ELSE "independent"

\* _check_dependency(p1, p2), lines 281-289: `p2.type in str(prop)`; the only
\* property value of a finding that is a string with an underscore is its
\* sub-type, which is shorter than a type, so no str(prop) contains a type
check_dependency(p1, p2) == "independent"

\* _analyze_pattern_relationship(p1, p2), lines 253-259
analyze_pattern_relationship(p1, p2) ==
    [type |-> "co-occurrence",
     interaction |-> determine_interaction(p1, p2),
     dependency |-> check_dependency(p1, p2)]

\* lines 145-157: the composite of the atomic patterns i < j, if any
CompositeOf(atomic, i, j) ==
    LET p1 == atomic[i]
        p2 == atomic[j]
    IN IF patterns_compatible(atomic, p1, p2)
       THEN <<Pattern("composite_" \o p1.type \o "_" \o p2.type, COMPOSITE,
                      [components |-> <<p1.type, p2.type>>,
                       relationship |-> analyze_pattern_relationship(p1, p2)],
                      ((IF p1.confidence < p2.confidence
                        THEN p1.confidence ELSE p2.confidence) * 9) \div 10,
                      <<p1, p2>>)>>
       ELSE <<>>

\* _identify_composite_patterns(atomic_patterns), lines 137-159
identify_composite_patterns(atomic) ==
    Flatten([i \in DOMAIN atomic |->
                Flatten([k \in 1 .. Len(atomic) - i |-> CompositeOf(atomic, i, i + k)])])

\* _group_related_patterns(patterns), lines 291-309: it starts with
\* set(patterns) (line 295), and a Pattern, a dataclass with eq and without
\* frozen, is unhashable, so the set of a non-empty list raises TypeError; of
\* an empty list there is no group
group_related_patterns(patterns) ==
    IF patterns = <<>> THEN Returned(<<>>) ELSE Raised("TypeError")

\* _identify_structural_patterns(composite_patterns), lines 161-180: one
\* structural pattern for each group of more than one member
identify_structural_patterns(composites) ==
    LET pattern_groups == group_related_patterns(composites)
    IN IF HasRaised(pattern_groups) THEN pattern_groups ELSE Returned(<<>>)

\* lines 187-198: the meta patterns of the value mappings, dict order being
\* the ascending order of the input values (np.unique)
MetaConditional(td) ==
    IF "value_mappings" \in DOMAIN td
    THEN LET vals == Ascending({v \in DOMAIN td.value_mappings :
                                   td.value_mappings[v].type = "conditional"})
         IN [n \in DOMAIN vals |->
                Pattern("meta_conditional_mapping", META,
                        [value |-> vals[n],
                         conditions |-> td.value_mappings[vals[n]].conditions],
                        800, <<>>)]
    ELSE <<>>

\* lines 200-207: the meta patterns of the object mappings
MetaObject(td) ==
    IF "object_transforms" \in DOMAIN td
    THEN LET mappings == Get(td.object_transforms, "object_mappings", <<>>)
         IN [n \in DOMAIN mappings |->
                Pattern("meta_object_transform", META, mappings[n], 700, <<>>)]
    ELSE <<>>

\* a variant of _identify_meta_patterns that makes a meta pattern of every
\* value mapping; C19 tells it from identify_meta_patterns
identify_meta_patterns_every_mapping(td) ==
    (IF "value_mappings" \in DOMAIN td
     THEN LET vals == Ascending(DOMAIN td.value_mappings)
          IN [n \in DOMAIN vals |->
                 Pattern("meta_conditional_mapping", META,
                         [value |-> vals[n], conditions |-> td.value_mappings[vals[n]]],
                         800, <<>>)]
     ELSE <<>>)
    \o MetaObject(td)

\* _identify_meta_patterns(transformation_data), lines 182-209
identify_meta_patterns(td) == MetaConditional(td) \o MetaObject(td)

\* _pattern_to_dict(pattern), lines 377-386
RECURSIVE pattern_to_dict(_)
pattern_to_dict(pattern) ==
    [type |-> pattern.type,
     level |-> LevelName(pattern.level),
     properties |-> pattern.properties,
     confidence |-> pattern.confidence,
     sub_patterns |-> [n \in DOMAIN pattern.sub_patterns |->
                          pattern_to_dict(pattern.sub_patterns[n])]]

\* [self._pattern_to_dict(p) for p in patterns]
ToDicts(patterns) == [n \in DOMAIN patterns |-> pattern_to_dict(patterns[n])]

(***************************************************************************)
(* analyze_pattern_relationships as a process: one step per level          *)
(***************************************************************************)
\* test_pattern_hierarchy.py lines 14-43: the grid patterns of setUp
FixtureGridPatterns ==
    [symmetry |->
        [symmetry_found |-> TRUE,
         symmetry_types |->
            <<[type |-> "horizontal_reflection", position |-> 2],
              [type |-> "rotational_90", order |-> 4]>>],
     progression |->
        [progression_found |-> TRUE,
         progression_types |->
            <<[type |-> "arithmetic", difference |-> 1, location |-> "row_0"],
              [type |-> "geometric", ratio |-> <<2, 1>>, location |-> "col_1"]>>],
     repetition |->
        [repetition_found |-> TRUE,
         patterns |->
            <<[type |-> "horizontal_repeat", block_size |-> <<2, 2>>, count |-> 3],
              [type |-> "vertical_repeat", block_size |-> <<1, 2>>, count |-> 2]>>],
     spatial |->
        [spatial_patterns_found |-> TRUE,
         patterns |->
            <<[type |-> "linear_arrangement", direction |-> <<1, 0>>, value |-> 1],
              [type |-> "diagonal_pattern", direction |-> "positive", value |-> 2]>>]]

\* test_pattern_hierarchy.py lines 46-57: the transformation data of setUp
FixtureTransformData ==
    [value_mappings |->
        (1 :> [type |-> "conditional", conditions |-> [corner |-> 2, edge |-> 3]])
        @@ (2 :> [type |-> "direct", to |-> 4]),
     object_transforms |->
        [object_mappings |->
            <<[input_object |-> [value |-> 1],
               transform |-> [type |-> "scale", factor |-> 2]],
              [input_object |-> [value |-> 2],
               transform |-> [type |-> "rotation", degrees |-> 90]]>>]]

\* grid patterns written by hand in which findings of two families carry the
\* same `type`
SharedTypeGridPatterns ==
    [symmetry |->
        [symmetry_found |-> TRUE,
         symmetry_types |-> <<[type |-> "mirror", position |-> 1]>>],
     spatial |->
        [spatial_patterns_found |-> TRUE,
         patterns |-> <<[type |-> "mirror", value |-> 1]>>]]

\* the training pairs given to analyze_transform: the task pairs whose two
\* grids have the same shape, and a pair with a conditional and a direct
\* value mapping
TransformPairs ==
    {pair \in TaskPairs : Shape(pair.input) = Shape(pair.output)}
    \cup {Pair(<<<<1, 1, 1>>, <<2, 0, 0>>>>, <<<<1, 2, 1>>, <<2, 0, 0>>>>)}

\* analyze_pattern_relationships(grid_patterns, transformation_data) called
\* by analyze_grid (enhanced_reasoning.py lines 32-38), by analyze_transform
\* for the input and for the output grid (lines 69-87), by the test of the
\* hierarchy with its own data, and by a caller with grid patterns written
\* by hand
\* PatternHierarchy.__init__, lines 34-38: the four lists of a new instance
NewHierarchy ==
    [atomic_patterns |-> <<>>, composite_patterns |-> <<>>,
     structural_patterns |-> <<>>, meta_patterns |-> <<>>]

\* the method of EnhancedReasoning that runs (or the direct call of the
\* hierarchy), which of its calls of analyze_pattern_relationships is
\* running, and the patterns of the output grid analyze_transform holds
Invocation(method, output_patterns) ==
    [method |-> method, call |-> 1, output_patterns |-> output_patterns]

InitHierarchy ==
    /\ pc = "identify_atomic"
    /\ \/ \E g \in DetectGrids :
              /\ grid_patterns = run_all_tests(g)
              /\ transformation_data = EmptyDict
              /\ invocation = Invocation("analyze_grid", EmptyDict)
       \/ \E pair \in TransformPairs :
              /\ grid_patterns = run_all_tests(pair.input)
              /\ transformation_data = Analysis(pair)
              /\ invocation = Invocation("analyze_transform", run_all_tests(pair.output))
       \/ /\ grid_patterns \in {FixtureGridPatterns, SharedTypeGridPatterns}
          /\ transformation_data = FixtureTransformData
          /\ invocation = Invocation("analyze_pattern_relationships", EmptyDict)
    /\ hierarchy = EmptyDict
    /\ self_hierarchy = NewHierarchy
    /\ results = Unused
    /\ grid = Unused /\ seen = Unused /\ objects = Unused /\ scan = Unused
    /\ training = Unused /\ input_grid = Unused /\ transforms = Unused
    /\ consistent = Unused /\ prediction = Unused
    /\ caller = Unused /\ buffer = Unused
    /\ object_grid = Unused

\* lines 44-48: patterns = self._extract_patterns(grid_patterns), then
\* atomic = self._identify_atomic_patterns(patterns) and
\* self.atomic_patterns.extend(atomic)
IdentifyAtomic ==
    /\ pc = "identify_atomic"
    /\ LET atomic == identify_atomic_patterns(extract_patterns(grid_patterns))
       IN /\ hierarchy' = [atomic |-> atomic]
          /\ self_hierarchy' = [self_hierarchy EXCEPT !.atomic_patterns = @ \o atomic]
    /\ pc' = "identify_composite"
    /\ UNCHANGED <<grid, seen, objects, scan, training, input_grid, transforms,
                   consistent, prediction, caller, buffer, results, grid_patterns,
                   transformation_data>>
    /\ UNCHANGED <<object_grid, invocation>>

\* lines 51-52: composites = self._identify_composite_patterns(atomic) and
\* self.composite_patterns.extend(composites)
IdentifyComposite ==
    /\ pc = "identify_composite"
    /\ LET composites == identify_composite_patterns(hierarchy.atomic)
       IN /\ hierarchy' = hierarchy @@ [composite |-> composites]
          /\ self_hierarchy' = [self_hierarchy EXCEPT !.composite_patterns = @ \o composites]
    /\ pc' = "identify_structural"
    /\ UNCHANGED <<grid, seen, objects, scan, training, input_grid, transforms,
                   consistent, prediction, caller, buffer, results, grid_patterns,
                   transformation_data>>
    /\ UNCHANGED <<object_grid, invocation>>

\* lines 55-56: structural = self._identify_structural_patterns(composites)
\* and self.structural_patterns.extend(structural)
IdentifyStructural ==
    /\ pc = "identify_structural"
    /\ LET res == identify_structural_patterns(hierarchy.composite)
       IN IF HasRaised(res)
          THEN pc' = "hierarchy_" \o res.raised /\ UNCHANGED <<hierarchy, self_hierarchy>>
          ELSE /\ pc' = "identify_meta"
               /\ hierarchy' = hierarchy @@ [structural |-> res.value]
               /\ self_hierarchy' =
                      [self_hierarchy EXCEPT !.structural_patterns = @ \o res.value]
    /\ UNCHANGED <<grid, seen, objects, scan, training, input_grid, transforms,
                   consistent, prediction, caller, buffer, results, grid_patterns,
                   transformation_data>>
    /\ UNCHANGED <<object_grid, invocation>>

\* lines 59-60: meta = self._identify_meta_patterns(transformation_data) and
\* self.meta_patterns.extend(meta)
IdentifyMeta ==
    /\ pc = "identify_meta"
    /\ LET meta == identify_meta_patterns(transformation_data)
       IN /\ hierarchy' = hierarchy @@ [meta |-> meta]
          /\ self_hierarchy' = [self_hierarchy EXCEPT !.meta_patterns = @ \o meta]
    /\ pc' = "hierarchy_return"
    /\ UNCHANGED <<grid, seen, objects, scan, training, input_grid, transforms,
                   consistent, prediction, caller, buffer, results, grid_patterns,
                   transformation_data>>
    /\ UNCHANGED <<object_grid, invocation>>

\* lines 62-67: the returned dict of lists of dicts
ReturnHierarchy ==
    /\ pc = "hierarchy_return"
    /\ hierarchy' = [level \in DOMAIN hierarchy |-> ToDicts(hierarchy[level])]
    /\ pc' = "hierarchy_returned"
    /\ UNCHANGED <<grid, seen, objects, scan, training, input_grid, transforms,
                   consistent, prediction, caller, buffer, results, grid_patterns,
                   transformation_data>>
    /\ UNCHANGED <<object_grid, reasoning_vars>>

\* enhanced_reasoning.py lines 84-87: analyze_transform, the input hierarchy
\* returned, calls analyze_pattern_relationships of the same instance with
\* the patterns of the output grid and the same transform_data
AnalyzeOutputPatterns ==
    /\ pc = "hierarchy_returned"
    /\ invocation.method = "analyze_transform"
    /\ invocation.call = 1
    /\ invocation' = [invocation EXCEPT !.call = 2]
    /\ grid_patterns' = invocation.output_patterns
    /\ hierarchy' = EmptyDict
    /\ pc' = "identify_atomic"
    /\ UNCHANGED <<grid, seen, objects, scan, training, input_grid, transforms,
                   consistent, prediction, caller, buffer, results,
                   transformation_data>>
    /\ UNCHANGED <<object_grid, self_hierarchy>>

NextHierarchy ==
    \/ IdentifyAtomic
    \/ IdentifyComposite
    \/ IdentifyStructural
    \/ IdentifyMeta
    \/ ReturnHierarchy
    \/ AnalyzeOutputPatterns

SpecHierarchy == InitHierarchy /\ [][NextHierarchy]_vars

(***************************************************************************)
(* get_object_grid for the objects of a grid, one step per object          *)
(* (transform_analysis.py lines 66 and 75-77)                              *)
(***************************************************************************)
InitObjectGrid ==
    /\ pc = "object_grid"
    /\ grid \in ObjectGrids
    /\ objects = get_objects(grid)
    /\ scan = 0
    /\ object_grid = Unused
    /\ self_hierarchy = Unused /\ invocation = Unused
    /\ seen = Unused
    /\ training = Unused /\ input_grid = Unused /\ transforms = Unused
    /\ consistent = Unused /\ prediction = Unused
    /\ caller = Unused /\ buffer = Unused
    /\ results = Unused /\ grid_patterns = Unused
    /\ transformation_data = Unused /\ hierarchy = Unused

\* line 77: in_grid = self.grid_ops.get_object_grid(input_grid, in_obj) for
\* the next object of the list; `scan` counts the objects done
GetObjectGrid ==
    /\ pc = "object_grid"
    /\ scan < Len(objects)
    /\ object_grid' = get_object_grid(grid, objects[scan + 1])
    /\ scan' = scan + 1
    /\ UNCHANGED <<pc, grid, seen, objects, training, input_grid, transforms,
                   consistent, prediction, caller, buffer>>
    /\ UNCHANGED <<pattern_vars, reasoning_vars>>

\* line 96: return transforms, the loop over the objects being done
ReturnObjectGrids ==
    /\ pc = "object_grid"
    /\ scan = Len(objects)
    /\ pc' = "object_grids_returned"
    /\ UNCHANGED <<grid, seen, objects, scan, training, input_grid, transforms,
                   consistent, prediction, caller, buffer, object_grid>>
    /\ UNCHANGED <<pattern_vars, reasoning_vars>>

NextObjectGrid == GetObjectGrid \/ ReturnObjectGrids

SpecObjectGrid == InitObjectGrid /\ [][NextObjectGrid]_vars

(***************************************************************************)
(* Claims about get_objects                                                *)
(***************************************************************************)
\* the set of cells of an object
CellSet(obj) == Range(obj.coords)

\* the cells of a grid holding a non-zero value
NonZeroCells(g) == {p \in Cells(g) : g[p[1]][p[2]] # 0}

\* 4-adjacency of two cells
Adjacent(p, q) ==
    \/ (p[1] = q[1] /\ (p[2] = q[2] + 1 \/ q[2] = p[2] + 1))
    \/ (p[2] = q[2] /\ (p[1] = q[1] + 1 \/ q[1] = p[1] + 1))

\* the cells of S joined to the cells of R by a path of 4-adjacent cells of S
RECURSIVE Reach(_, _)
Reach(R, S) ==
    LET more == {q \in S \ R : \E p \in R : Adjacent(p, q)}
    IN IF more = {} THEN R ELSE Reach(R \cup more, S)

Connected(S) == S = {} \/ (\E p \in S : Reach({p}, S) = S)

\* C1: when get_objects returns, the cell sets of the returned objects are
\* pairwise disjoint, no object lists a cell twice, and the union of the cell
\* sets is exactly the set of non-zero cells of the grid
C1_ObjectsPartitionNonZero ==
    pc = "objects_returned" =>
        /\ \A i, j \in DOMAIN objects :
               i # j => CellSet(objects[i]) \cap CellSet(objects[j]) = {}
        /\ \A i \in DOMAIN objects :
               Cardinality(CellSet(objects[i])) = Len(objects[i].coords)
        /\ UNION {CellSet(objects[i]) : i \in DOMAIN objects} = NonZeroCells(grid)

\* C1 witness: a returned scan with two objects next to background cells
C1_Witness ==
    /\ pc = "objects_returned"
    /\ Len(objects) >= 2
    /\ NonZeroCells(grid) # Cells(grid)
    /\ \E i \in DOMAIN objects : objects[i].size >= 3

\* C2: every returned object is a maximal 4-connected region of one value
C2_ObjectsMaximalConnected ==
    pc = "objects_returned" =>
        \A i \in DOMAIN objects :
            LET S == CellSet(objects[i])
            IN /\ S # {}
               /\ objects[i].value # 0
               /\ \A p \in S : grid[p[1]][p[2]] = objects[i].value
               /\ Connected(S)
               /\ \A q \in Cells(grid) \ S :
                      (\E p \in S : Adjacent(p, q)) => grid[q[1]][q[2]] # objects[i].value

\* C2 witness: an object that bends (not a straight line) lies next to a
\* cell of another non-zero value, and a second object of its value exists
C2_Witness ==
    /\ pc = "objects_returned"
    /\ \E i, j \in DOMAIN objects :
           /\ i # j
           /\ objects[i].value = objects[j].value
           /\ objects[i].size >= 3
           /\ objects[i].dimensions[1] >= 2 /\ objects[i].dimensions[2] >= 2
           /\ \E p \in CellSet(objects[i]), q \in Cells(grid) :
                  Adjacent(p, q) /\ grid[q[1]][q[2]] \notin {0, objects[i].value}
(***************************************************************************)
(* Claims about the value mappings (one training pair, SpecAnalysis)       *)
(***************************************************************************)
\* the pair of the running single-pair task, once it is analysed
Analysed == pc \in {"analyze", "apply_global"} /\ Len(transforms) = 1

\* position categories as the specification words them: corner on a row
\* extreme and a column extreme, edge on exactly one of them, else interior
OnRowExtreme(p, g) == p[1] = 0 \/ p[1] = H(g) - 1
OnColExtreme(p, g) == p[2] = 0 \/ p[2] = W(g) - 1
Category(p, g) ==
    IF OnRowExtreme(p, g) /\ OnColExtreme(p, g) THEN "corner"
    ELSE IF OnRowExtreme(p, g) \/ OnColExtreme(p, g) THEN "edge"
    ELSE "interior"

\* the output values at the cells of the input value v, all or by category
OutputsAt(pair, v) ==
    {pair.output[p[1]][p[2]] : p \in {q \in Cells(pair.input) : pair.input[q[1]][q[2]] = v}}
OutputsIn(pair, v, cat) ==
    {pair.output[p[1]][p[2]] :
        p \in {q \in Cells(pair.input) :
                  pair.input[q[1]][q[2]] = v /\ Category(q, pair.input) = cat}}

\* the classification the claim C3 gives to the input value v
ClaimedType(pair, v) ==
    IF Cardinality(OutputsAt(pair, v)) = 1 THEN "direct"
    ELSE IF \A cat \in {"corner", "edge", "interior"} :
                Cardinality(OutputsIn(pair, v, cat)) <= 1
    THEN "conditional"
    ELSE "complex"

\* C3: for a training pair of equal dimensions, the value mapping of every
\* non-zero input value v is direct iff one distinct output value occurs at
\* the cells of v, otherwise conditional iff every position category in which
\* v occurs maps to a single output value, and complex in every other case
C3_ValueMappingClassification ==
    Analysed =>
        \A v \in DOMAIN transforms[1].value_mappings :
            transforms[1].value_mappings[v].type = ClaimedType(training[1], v)

\* the two grids of concrete scenario 1
Scenario1 ==
    Pair(<<<<0, 0, 0>>, <<0, 1, 0>>, <<0, 0, 0>>>>, <<<<1, 1, 1>>, <<1, 0, 1>>, <<1, 1, 1>>>>)

\* C4 as stated: for scenario 1 the value mappings are exactly
\* {0: direct to 1, 1: direct to 0}, the value 0 having an entry of its own
C4_BackgroundMappedAsStated ==
    (Analysed /\ training[1] = Scenario1) =>
        /\ DOMAIN transforms[1].value_mappings = {0, 1}
        /\ transforms[1].value_mappings[0] = [type |-> "direct", to |-> 1]
        /\ transforms[1].value_mappings[1] = [type |-> "direct", to |-> 0]

\* C4 amended: for scenario 1 the value mappings are exactly {1: direct to 0};
\* the background value 0 never gets an entry, in any analysis
C4_BackgroundSkipped ==
    Analysed =>
        /\ 0 \notin DOMAIN transforms[1].value_mappings
        /\ training[1] = Scenario1 =>
               /\ DOMAIN transforms[1].value_mappings = {1}
               /\ transforms[1].value_mappings[1] = [type |-> "direct", to |-> 0]

\* C4 witness: scenario 1 is analysed
C4_Witness == Analysed /\ training[1] = Scenario1

(***************************************************************************)
(* Claims about the global transform (one training pair, SpecAnalysis)     *)
(***************************************************************************)
\* the two grids of concrete scenario 2
Scenario2 ==
    Pair(<<<<1, 0, 0>>, <<0, 0, 0>>, <<0, 0, 0>>>>, <<<<0, 0, 1>>, <<0, 0, 0>>, <<0, 0, 0>>>>)

\* the output is the left-right mirror image of the input
IsMirror(pair) ==
    /\ Shape(pair.input) = Shape(pair.output)
    /\ \A p \in Cells(pair.input) :
           pair.output[p[1]][p[2]] = pair.input[p[1]][W(pair.input) - 1 - p[2]]

\* the output is the up-down mirror image of the input
IsUpDownMirror(pair) ==
    /\ Shape(pair.input) = Shape(pair.output)
    /\ \A p \in Cells(pair.input) :
           pair.output[p[1]][p[2]] = pair.input[H(pair.input) - 1 - p[1]][p[2]]

\* the quarter turns (counterclockwise) that take the input to the output
TurnsTo(pair) ==
    {k \in 1 .. 3 : Shape(rot90(pair.input, k)) = Shape(pair.output)
                    /\ rot90(pair.input, k) = pair.output}

\* C5 as stated: when the output is the left-right mirror image of the
\* input, the reported global transform is flip(axis=vertical)
C5_MirrorReportedAsFlip ==
    (Analysed /\ IsMirror(training[1])) =>
        transforms[1].spatial_transforms.global_transform
            = [type |-> "flip", axis |-> "vertical"]

\* C5 amended: when the output is the left-right mirror image of the input,
\* the reported global transform is the rotation by the smallest quarter turn
\* that also yields the output if there is one (rotation(270) for scenario 2),
\* else flip(axis=horizontal) if the output is the up-down mirror image too,
\* and flip(axis=vertical) only otherwise
C5_MirrorAfterRotations ==
    (Analysed /\ IsMirror(training[1])) =>
        LET gt == transforms[1].spatial_transforms.global_transform
            turns == TurnsTo(training[1])
        IN /\ turns # {} => gt = [type |-> "rotation", degrees |-> 90 * SetMin(turns)]
           /\ (turns = {} /\ IsUpDownMirror(training[1]))
                  => gt = [type |-> "flip", axis |-> "horizontal"]
           /\ (turns = {} /\ ~IsUpDownMirror(training[1]))
                  => gt = [type |-> "flip", axis |-> "vertical"]
           /\ training[1] = Scenario2 => gt = [type |-> "rotation", degrees |-> 270]

\* C5 witness: scenario 2 is analysed and reported as a rotation
C5_Witness ==
    /\ Analysed
    /\ training[1] = Scenario2
    /\ transforms[1].spatial_transforms.global_transform.type = "rotation"

(***************************************************************************)
(* Claims about predict_output (Spec)                                      *)
(***************************************************************************)
\* _find_consistent_transforms has returned
Reduced ==
    pc \in {"apply_global", "apply_values", "apply_objects", "apply_relative",
            "returned", "apply_KeyError", "apply_IndexError"}

\* _apply_transforms has returned or raised
Applied == pc \in {"returned", "apply_KeyError", "apply_IndexError"}

\* the task of concrete scenario 2 and its new input
Scenario2Input == Array(<<<<0, 1, 0>>, <<0, 0, 0>>, <<0, 0, 0>>>>)
Scenario2Task == training = <<Scenario2>> /\ input_grid = Scenario2Input

\* C6 as stated: predicting from the pair of scenario 2 on the new input
\* [[0,1,0],[0,0,0],[0,0,0]] returns that input unchanged
C6_MirrorScenarioUnchanged ==
    (Scenario2Task /\ Applied) => (pc = "returned" /\ prediction = input_grid)

\* C6 amended: predicting from the pair of scenario 2 on the new input
\* [[0,1,0],[0,0,0],[0,0,0]] returns the 3 x 3 grid of zeros: the global
\* step turns the grid by 270 degrees, which takes the 1 to row 1, column 2,
\* the value step maps that 1 to 0, and the last two steps change nothing
C6_MirrorScenarioErased ==
    Scenario2Task =>
        /\ pc = "apply_values" =>
               prediction = Array(<<<<0, 0, 0>>, <<0, 0, 1>>, <<0, 0, 0>>>>)
        /\ pc \in {"apply_objects", "apply_relative"} =>
               prediction = Array(<<<<0, 0, 0>>, <<0, 0, 0>>, <<0, 0, 0>>>>)
        /\ Applied =>
               /\ pc = "returned"
               /\ prediction = Array(<<<<0, 0, 0>>, <<0, 0, 0>>, <<0, 0, 0>>>>)

\* C6 witness: the prediction for scenario 2 has been returned
C6_Witness == Scenario2Task /\ pc = "returned"

\* the input values that have a value mapping in some analysis or in the
\* consistent hypothesis
MappedSomewhere ==
    UNION {DOMAIN transforms[i].value_mappings : i \in DOMAIN transforms}
    \cup DOMAIN consistent.value_mappings

\* C7: after the reduction of one or more analyses, the consistent hypothesis
\* has a value-mapping entry for the input value v iff every analysis has a
\* mapping for v and all of these are equal, and the entry is that mapping
C7_ValueMappingSurvivesIffAllEqual ==
    (Reduced /\ Len(transforms) >= 1) =>
        \A v \in MappedSomewhere :
            /\ v \in DOMAIN consistent.value_mappings
                   <=> /\ \A i \in DOMAIN transforms : v \in DOMAIN transforms[i].value_mappings
                       /\ \A i, j \in DOMAIN transforms :
                              transforms[i].value_mappings[v] = transforms[j].value_mappings[v]
            /\ v \in DOMAIN consistent.value_mappings
                   => consistent.value_mappings[v] = transforms[1].value_mappings[v]

\* C7 witness: two analyses map the value 1 differently and no entry for 1
\* is in the consistent hypothesis
C7_Witness ==
    /\ Reduced
    /\ Len(transforms) = 2
    /\ 1 \in DOMAIN transforms[1].value_mappings
    /\ 1 \in DOMAIN transforms[2].value_mappings
    /\ transforms[1].value_mappings[1] # transforms[2].value_mappings[1]
    /\ 1 \notin DOMAIN consistent.value_mappings

\* C8: the reduction is order-independent: every permutation of the list of
\* analyses reduces to the same consistent hypothesis
C8_ReductionOrderIndependent ==
    Reduced =>
        \A p \in Permutations(DOMAIN transforms) :
            find_consistent_transforms([i \in DOMAIN transforms |-> transforms[p[i]]])
                = consistent

\* the consistent hypothesis has no surviving entry
NoSurvivingEntry(cons) ==
    /\ "value_mappings" \in DOMAIN cons => DOMAIN cons.value_mappings = {}
    /\ "object_transforms" \in DOMAIN cons => cons.object_transforms.mappings = <<>>
    /\ "spatial_transforms" \in DOMAIN cons =>
           /\ GlobalTrans(cons).type = "none"
           /\ cons.spatial_transforms.relative_positions = <<>>

\* C10: when the consistent hypothesis has no surviving entry,
\* _apply_transforms returns a grid equal to the input grid
C10_EmptyHypothesisIsIdentity ==
    (Applied /\ NoSurvivingEntry(consistent)) =>
        (pc = "returned" /\ prediction = input_grid)

(***************************************************************************)
(* Claims about the reduction of one analysis (SpecAnalysis)               *)
(***************************************************************************)
\* the reduction of the single analysis has returned
ReducedOne == pc = "apply_global" /\ Len(transforms) = 1

\* the value mappings, the object count change, the global transform and the
\* relative-position entries of the single analysis are all in the hypothesis
OthersSurvive ==
    /\ consistent.value_mappings = transforms[1].value_mappings
    /\ consistent.object_transforms.object_count_change
           = transforms[1].object_transforms.object_count_change
    /\ consistent.spatial_transforms.global_transform
           = transforms[1].spatial_transforms.global_transform
    /\ consistent.spatial_transforms.relative_positions
           = transforms[1].spatial_transforms.relative_positions

\* the hypothesis has an entry for the match of the object mapping
HasEntry(mapping, match) ==
    \E k \in DOMAIN consistent.object_transforms.mappings :
        consistent.object_transforms.mappings[k]
            = [input_value |-> mapping.input_object.value, transform |-> match.transform]

\* the object mapping has one candidate match and a classified transform
Unambiguous(mapping) ==
    Len(mapping.matches) = 1 /\ mapping.matches[1].transform.type # "complex"

Applying == Reduced /\ Len(training) >= 1

\* the input grid after step 1, the global transform of the hypothesis
AfterGlobalStep ==
    IF "global_transform" \notin DOMAIN consistent.spatial_transforms
    THEN input_grid
    ELSE LET gt == consistent.spatial_transforms.global_transform
         IN CASE gt.type = "rotation" -> rot90(input_grid, gt.degrees \div 90)
              [] gt.type = "flip" /\ gt.axis = "horizontal" -> flip(input_grid, 0)
              [] gt.type = "flip" /\ gt.axis = "vertical" -> flip(input_grid, 1)
              [] gt.type = "scale" -> kron(input_grid, gt.factor)
              [] OTHER -> input_grid

\* the grid after step 2, the value mappings on the result of step 1
AfterValueStep == apply_value_mappings(AfterGlobalStep, consistent.value_mappings)

\* the grid after step 3, the object transforms on the result of step 2
AfterObjectStep ==
    apply_object_transforms(AfterValueStep, consistent.object_transforms.mappings)

\* the outcome of step 4, the relative-position moves on the result of step 3
AfterRelativeStep ==
    apply_relative_positions(AfterObjectStep, consistent.spatial_transforms.relative_positions)

C12_ArgumentsNeverWritten ==
    /\ caller.input_grid = input_grid
    /\ caller.training = training
    /\ Applied => buffer.of = "own"

\* C12 witness: a prediction is returned whose cells were rewritten in place
\* after the analysis of a training pair with objects
C12_Witness ==
    /\ pc = "returned"
    /\ Len(training) >= 1
    /\ AfterValueStep # AfterGlobalStep
    /\ get_objects(training[1].input) # <<>>

(***************************************************************************)
(* Claims about errors of the analysis (SpecAnalysis)                      *)
(***************************************************************************)
\* C13: the analysis is total over well-formed grids: for every training
\* pair, the pairs whose output has other dimensions than the input
\* included, the three analyses return and none raises an error
C13_AnalysisTotal == pc # "analyze_IndexError"

(***************************************************************************)
(* Claims about malformed grids (SpecValidate)                             *)
(***************************************************************************)
\* the grid is empty, has a row of length zero, or rows of unequal length
Malformed(rows) ==
    \/ rows = <<>>
    \/ \E i \in DOMAIN rows : Len(rows[i]) = 0
    \/ \E i, j \in DOMAIN rows : Len(rows[i]) # Len(rows[j])

\* C14: a grid that is empty, has a row of length zero, or has rows of
\* unequal length is rejected with an error by the validation, and no
\* analysis component ever processes it
C14_MalformedGridRejected ==
    (Malformed(grid) /\ pc # "validate") => pc = "validate_TaskError"

(***************************************************************************)
(* Claims about the pattern detectors                                      *)
(***************************************************************************)
\* the symmetry detector has run on `grid`
SymmetryTested ==
    /\ pc \in {"run_all_tests", "tests_returned"}
    /\ "symmetry" \in DOMAIN results

\* the symmetry findings of the given type
SymmetryFindings(type) ==
    {n \in DOMAIN results.symmetry.symmetry_types :
        results.symmetry.symmetry_types[n].type = type}

\* the grid equals itself turned by k quarter turns
SelfEqualTurned(g, k) == H(g) = W(g) /\ g = rot90(g, k)

\* some row split or column split of the grid has mirrored halves
HasReflectionSplit(g) ==
    \/ \E i \in 1 .. H(g) - 1 :
           /\ 2 * i = H(g)
           /\ \A r \in 0 .. i - 1, c \in 0 .. W(g) - 1 : g[r][c] = g[H(g) - 1 - r][c]
    \/ \E i \in 1 .. W(g) - 1 :
           /\ 2 * i = W(g)
           /\ \A r \in 0 .. H(g) - 1, c \in 0 .. i - 1 : g[r][c] = g[r][W(g) - 1 - c]

\* C15: rotational_90 is reported iff the grid equals its own 90-degree
\* rotation, rotational_180 iff it equals its 180-degree rotation, and a grid
\* with no reflection split and no rotational self-equality yields
\* symmetry_found = false and an empty list of findings.
C15_RotationalOnlyForSelfEquality ==
    SymmetryTested =>
        /\ SymmetryFindings("rotational_90") # {} <=> SelfEqualTurned(grid, 1)
        /\ SymmetryFindings("rotational_180") # {} <=> array_equal(grid, rot90(grid, 2))
        /\ (/\ ~HasReflectionSplit(grid)
            /\ ~SelfEqualTurned(grid, 1)
            /\ ~array_equal(grid, rot90(grid, 2)))
           => /\ results.symmetry.symmetry_found = FALSE
              /\ results.symmetry.symmetry_types = <<>>

\* the repetition detector has run on `grid`
RepetitionTested ==
    /\ pc \in {"run_all_tests", "tests_returned"}
    /\ "repetition" \in DOMAIN results

\* the grid is the h x w block at its origin laid out over all of it
TiledBy(g, h, w) ==
    /\ H(g) % h = 0
    /\ W(g) % w = 0
    /\ \A p \in Cells(g) : g[p[1]][p[2]] = g[p[1] % h][p[2] % w]

\* C16: a horizontal_repeat or vertical_repeat finding with block size h x w is
\* reported only when h and w divide the dimensions of the grid and the tiling
\* of the origin block reproduces the whole grid; a grid with a cell that
\* differs from the tiled block has no such finding.
C16_RepeatOnlyForExactTiling ==
    RepetitionTested =>
        \A n \in DOMAIN results.repetition.patterns :
            LET finding == results.repetition.patterns[n]
            IN TiledBy(grid, finding.block_size[1], finding.block_size[2])

(***************************************************************************)
(* Claims about the pattern hierarchy                                      *)
(***************************************************************************)
\* analyze_pattern_relationships has returned `hierarchy`
HierarchyReturned == pc = "hierarchy_returned"

\* the levels of the returned dict
Levels == {"atomic", "composite", "structural", "meta"}

\* a confidence (in thousandths) lies between 0 and 1
InUnitInterval(confidence) == 0 <= confidence /\ confidence <= 1000

\* C17: every pattern returned by analyze_pattern_relationships, at the
\* levels atomic, composite, structural and meta, has a confidence between 0
\* and 1 inclusive.
C17_ConfidenceInUnitInterval ==
    HierarchyReturned =>
        /\ DOMAIN hierarchy = Levels
        /\ \A level \in Levels : \A n \in DOMAIN hierarchy[level] :
               /\ InUnitInterval(hierarchy[level][n].confidence)
               /\ \A k \in DOMAIN hierarchy[level][n].sub_patterns :
                      InUnitInterval(hierarchy[level][n].sub_patterns[k].confidence)

\* a call made with detector findings of several families and with the
\* analysis of a training pair has returned atomic and meta patterns
C17_Witness ==
    /\ HierarchyReturned
    /\ grid_patterns \in {run_all_tests(g) : g \in DetectGrids}
    /\ Cardinality({hierarchy.atomic[n].confidence : n \in DOMAIN hierarchy.atomic}) > 1
    /\ hierarchy.meta # <<>>

\* the sub-types the detectors give to the findings of a family
EmittedTypes(family) ==
    CASE family = "symmetry" ->
             {"horizontal_reflection", "vertical_reflection",
              "rotational_180", "rotational_90"}
      [] family = "progression" -> {"arithmetic", "geometric"}
      [] family = "repetition" -> {"horizontal_repeat", "vertical_repeat"}
      [] family = "spatial" ->
             {"linear_arrangement", "diagonal_pattern", "rectangular_arrangement"}

\* the findings supplied for a family (none when the found flag is false)
FindingsOf(gp, family) ==
    LET lists == [symmetry |-> "symmetry_types", progression |-> "progression_types",
                  repetition |-> "patterns", spatial |-> "patterns"]
        flags == [symmetry |-> "symmetry_found", progression |-> "progression_found",
                  repetition |-> "repetition_found", spatial |-> "spatial_patterns_found"]
    IN IF family \in DOMAIN gp /\ gp[family][flags[family]]
       THEN gp[family][lists[family]] ELSE <<>>

\* the families with at least one finding
FamiliesSupplied(gp) ==
    {family \in {"symmetry", "progression", "repetition", "spatial"} :
        FindingsOf(gp, family) # <<>>}

\* every finding carries the sub-type the detector of its family emits
TypesAsEmitted(gp) ==
    \A family \in FamiliesSupplied(gp) : \A n \in DOMAIN FindingsOf(gp, family) :
        FindingsOf(gp, family)[n].type \in EmittedTypes(family)

\* the atomic patterns of the returned hierarchy that a family accounts for
AtomicOfFamily(family) ==
    {p \in Range(hierarchy.atomic) :
        \E sub \in EmittedTypes(family) : p.type = family \o "_" \o sub}

\* C18: when findings of at least two families are supplied, each with the
\* sub-type its detector emits, analyze_pattern_relationships returns at least
\* one composite pattern, and every returned composite has level COMPOSITE and
\* pairs two atomic patterns of different families.
C18_TwoFamiliesGiveComposite ==
    (/\ HierarchyReturned
     /\ Cardinality(FamiliesSupplied(grid_patterns)) >= 2
     /\ TypesAsEmitted(grid_patterns))
    => /\ hierarchy.composite # <<>>
       /\ \A n \in DOMAIN hierarchy.composite :
              LET composite == hierarchy.composite[n]
              IN /\ composite.level = "COMPOSITE"
                 /\ Len(composite.sub_patterns) = 2
                 /\ \E f1, f2 \in FamiliesSupplied(grid_patterns) :
                        /\ f1 # f2
                        /\ composite.sub_patterns[1] \in AtomicOfFamily(f1)
                        /\ composite.sub_patterns[2] \in AtomicOfFamily(f2)

\* the value mappings and the object mappings of the transformation data
\* (none when the key is missing)
ValueMappingsOf(td) ==
    IF "value_mappings" \in DOMAIN td THEN td.value_mappings ELSE EmptyDict
ObjectMappingsOf(td) ==
    IF "object_transforms" \in DOMAIN td
       /\ "object_mappings" \in DOMAIN td.object_transforms
    THEN td.object_transforms.object_mappings ELSE <<>>

\* the input values whose mapping is conditional
ConditionalValues(td) ==
    {v \in DOMAIN ValueMappingsOf(td) : ValueMappingsOf(td)[v].type = "conditional"}

\* the positions of the returned meta list that hold a pattern of a type
MetaOfType(type) == {n \in DOMAIN hierarchy.meta : hierarchy.meta[n].type = type}

\* C19: the returned meta list holds exactly one meta_conditional_mapping
\* pattern per conditional value mapping, exactly one meta_object_transform
\* pattern per entry of object_mappings, and nothing else; it is fixed by the
\* transformation data alone, whatever the grid patterns are.
C19_MetaFromTransformationDataOnly ==
    HierarchyReturned =>
        LET conditional == MetaOfType("meta_conditional_mapping")
            object == MetaOfType("meta_object_transform")
            mappings == ObjectMappingsOf(transformation_data)
        IN /\ conditional \cup object = DOMAIN hierarchy.meta
           /\ \A v \in ConditionalValues(transformation_data) :
                  Cardinality({n \in conditional :
                                  hierarchy.meta[n].properties.value = v}) = 1
           /\ \A n \in conditional :
                  /\ hierarchy.meta[n].properties.value
                         \in ConditionalValues(transformation_data)
                  /\ hierarchy.meta[n].properties.conditions =
                         transformation_data.value_mappings[
                             hierarchy.meta[n].properties.value].conditions
           /\ Cardinality(object) = Len(mappings)
           /\ \A k \in DOMAIN mappings :
                  hierarchy.meta[Cardinality(conditional) + k].properties = mappings[k]

\* a returned call whose transformation data is the analysis of a training
\* pair and holds a conditional mapping, a mapping that is not conditional
\* and an object mapping
C19_Witness ==
    /\ HierarchyReturned
    /\ "spatial_transforms" \in DOMAIN transformation_data
    /\ ConditionalValues(transformation_data) # {}
    /\ DOMAIN ValueMappingsOf(transformation_data)
           # ConditionalValues(transformation_data)
    /\ ObjectMappingsOf(transformation_data) # <<>>
    /\ MetaOfType("meta_conditional_mapping") # {}
    /\ MetaOfType("meta_object_transform") # {}

(***************************************************************************)
(* Claims about get_object_grid                                            *)
(***************************************************************************)
\* get_object_grid has returned object_grid for the object objects[scan]
ObjectGridReturned == pc \in {"object_grid", "object_grids_returned"} /\ scan >= 1

\* the grid with every cell that is not of the object set to 0
MaskedObject(g, obj) ==
    [r \in DOMAIN g |-> [c \in DOMAIN g[r] |->
        IF <<r, c>> \in Range(obj.coords) THEN g[r][c] ELSE 0]]

\* the all-zero grid of the shape of g with the non-zero cells of sub written
\* at the offset (r0, c0)
WrittenBack(g, sub, r0, c0) ==
    [r \in DOMAIN g |-> [c \in DOMAIN g[r] |->
        IF /\ r - r0 \in DOMAIN sub
           /\ c - c0 \in DOMAIN sub[0]
           /\ sub[r - r0][c - c0] # 0
        THEN sub[r - r0][c - c0] ELSE 0]]

\* C20: for every grid and every object of it, get_object_grid returns a grid
\* of the bounding-box dimensions of the object whose non-zero cells are the
\* cells of the object, shifted by the bounding-box origin, holding the value
\* of the object; writing them back at the bounding box of an all-zero grid
\* reproduces the object.
C20_ObjectGridRoundTrip ==
    ObjectGridReturned =>
        LET obj == objects[scan]
        IN /\ Shape(object_grid) = obj.dimensions
           /\ \A p \in Cells(object_grid) :
                  IF <<p[1] + obj.min_r, p[2] + obj.min_c>> \in Range(obj.coords)
                  THEN object_grid[p[1]][p[2]] = obj.value
                  ELSE object_grid[p[1]][p[2]] = 0
           /\ WrittenBack(grid, object_grid, obj.min_r, obj.min_c) = MaskedObject(grid, obj)

\* the sub-grid of an object whose bounding box holds a cell of another object
C20_Witness ==
    /\ ObjectGridReturned
    /\ \E r \in objects[scan].min_r .. objects[scan].max_r,
          c \in objects[scan].min_c .. objects[scan].max_c :
           /\ grid[r][c] # 0
           /\ <<r, c>> \notin Range(objects[scan].coords)

(***************************************************************************)
(* Further claims about the analysis of one training pair (SpecAnalysis)   *)
(***************************************************************************)
\* the output is the input with every cell replicated into a k x k block
IsBlockScaling(pair, k) ==
    /\ H(pair.output) = k * H(pair.input)
    /\ W(pair.output) = k * W(pair.input)
    /\ \A p \in Cells(pair.output) :
           pair.output[p[1]][p[2]] = pair.input[p[1] \div k][p[2] \div k]

\* the output is a rotation, a flip or an integer-factor block scaling of the
\* input
IsGlobalImage(pair) ==
    \/ TurnsTo(pair) # {}
    \/ IsMirror(pair)
    \/ IsUpDownMirror(pair)
    \/ \E k \in 1 .. H(pair.output) : IsBlockScaling(pair, k)

\* C21: the global transform is none whenever the output is not a rotation, a
\* flip or an integer-factor block scaling of the input, in particular for
\* two grids of equal dimensions and different content that are no rotations
\* or flips of each other; scale(k) is reported only when the output is the
\* input with every cell replicated into a k x k block.
C21_GlobalNoneUnlessImage ==
    Analysed =>
        LET gt == transforms[1].spatial_transforms.global_transform
        IN /\ ~IsGlobalImage(training[1]) => gt.type = "none"
           /\ gt.type = "scale" => IsBlockScaling(training[1], gt.factor)

\* the mask b is a rotation or a flip of the mask a
IsTurnedOrFlipped(a, b) ==
    \/ \E k \in 1 .. 3 : Shape(rot90(a, k)) = Shape(b) /\ rot90(a, k) = b
    \/ Shape(a) = Shape(b) /\ (flip(a, 0) = b \/ flip(a, 1) = b)

\* C22: for an input object subgrid and an output object subgrid of equal
\* shape and equal value whose non-zero masks differ, the classification is
\* rotation or flip when the output mask is a rotation or flip of the input
\* mask and complex otherwise; value_change is reported only for subgrids of
\* the same shape and the same non-zero mask whose single values differ.
C22_ObjectTransformClassification ==
    Analysed =>
        LET mappings == transforms[1].object_transforms.object_mappings
        IN \A i \in DOMAIN mappings : \A j \in DOMAIN mappings[i].matches :
               LET in_obj == mappings[i].input_object
                   out_obj == mappings[i].matches[j].output_object
                   transform == mappings[i].matches[j].transform
                   a == NonZeroMask(get_object_grid(training[1].input, in_obj))
                   b == NonZeroMask(get_object_grid(training[1].output, out_obj))
               IN /\ (Shape(a) = Shape(b) /\ in_obj.value = out_obj.value /\ a # b)
                      => IF IsTurnedOrFlipped(a, b)
                         THEN transform.type \in {"rotation", "flip"}
                         ELSE transform.type = "complex"
                  /\ transform.type = "value_change"
                      => (Shape(a) = Shape(b) /\ a = b /\ in_obj.value # out_obj.value)


\* the analysis t reports the transform for an input object of value v
HasHypothesis(t, v, transform) ==
    \E k \in DOMAIN t.object_transforms.object_mappings :
        LET m == t.object_transforms.object_mappings[k]
        IN /\ m.input_object.value = v
           /\ \E j \in DOMAIN m.matches : m.matches[j].transform = transform

\* C23: an object-transform entry (input value v, transform T) is in the
\* consistent hypothesis only if, in every training pair, an input object of
\* value v has T as its hypothesis; a transform seen in another pair only on
\* objects of a different value does not keep the entry for v.
C23_ObjectEntryNeedsSameValue ==
    (Reduced /\ transforms # <<>>) =>
        \A k \in DOMAIN consistent.object_transforms.mappings :
            LET entry == consistent.object_transforms.mappings[k]
            IN \A i \in DOMAIN transforms :
                   HasHypothesis(transforms[i], entry.input_value, entry.transform)


\* predict_output has been called with an empty list of training pairs
EmptyTraining == training = <<>>

\* C24: an empty consistent hypothesis never causes an exception:
\* predict_output called with an empty list of training pairs completes
\* without raising and returns a grid equal to the input grid.
C24_EmptyTrainingReturnsInput ==
    (EmptyTraining /\ Reduced) =>
        /\ pc \notin {"apply_KeyError", "apply_IndexError"}
        /\ pc = "returned" => prediction = input_grid


\* the atomic patterns have been built from findings the detectors produced
AtomicFromDetectors ==
    /\ pc \in {"identify_composite", "identify_structural", "identify_meta",
               "hierarchy_return", "hierarchy_returned", "hierarchy_TypeError"}
    /\ grid_patterns \notin {FixtureGridPatterns, SharedTypeGridPatterns}

\* C25: when the findings of the atomic detectors are fed to the hierarchy
\* builder, every symmetry finding gets the confidence 0.8, every arithmetic
\* (constant-difference) progression finding gets 0.8, and every repetition
\* finding whose repetition count is greater than 2 gets more than 0.5.
C25_DetectorFindingsFollowTable ==
    AtomicFromDetectors =>
        /\ \A p \in AtomicOfFamily("symmetry") : p.confidence = 800
        /\ \A p \in AtomicOfFamily("progression") :
               p.type = "progression_arithmetic" => p.confidence = 800
        /\ \A p \in AtomicOfFamily("repetition") :
               p.properties.repetitions > 2 => p.confidence > 500


\* two composites are related: they share a sub-pattern or a property value
\* (the values under different keys of a composite are of different kinds)
Related(c1, c2) ==
    \/ Range(c1.sub_patterns) \cap Range(c2.sub_patterns) # {}
    \/ \E k \in DOMAIN c1.properties \cap DOMAIN c2.properties :
           c1.properties[k] = c2.properties[k]

\* the positions of the composites tied to position i by a chain of related
\* composites
ChainOf(composites, i) ==
    LET RECURSIVE Closure(_)
        Closure(S) ==
            LET next == S \cup {j \in DOMAIN composites :
                                   \E k \in S : Related(composites[k], composites[j])}
            IN IF next = S THEN S ELSE Closure(next)
    IN Closure({i})

\* the structural step has been taken
Grouped ==
    pc \in {"identify_meta", "hierarchy_return", "hierarchy_returned",
            "hierarchy_TypeError"}

\* C26: structural grouping partitions the composite patterns into the
\* equivalence classes of relatedness: grouping returns, every composite is
\* in exactly one group, and two composites related directly or through a
\* chain of other composites are in the same group, whatever the order in
\* which the composites are picked.
C26_GroupsAreEquivalenceClasses ==
    Grouped =>
        LET composites == hierarchy.composite
            res == group_related_patterns(composites)
            groups == res.value
        IN /\ ~HasRaised(res)
           /\ \A i \in DOMAIN composites :
                  /\ Cardinality({g \in DOMAIN groups : composites[i] \in groups[g]}) = 1
                  /\ \A j \in ChainOf(composites, i) :
                         \A g \in DOMAIN groups :
                             composites[i] \in groups[g] <=> composites[j] \in groups[g]


\* the method of EnhancedReasoning has made its last call of
\* analyze_pattern_relationships, on an instance new when the method began
InvocationDone ==
    /\ pc = "hierarchy_returned"
    /\ invocation.method \in {"analyze_grid", "analyze_transform"}
    /\ invocation.method = "analyze_transform" => invocation.call = 2

\* C27: the state of the pattern hierarchy is scoped to one invocation of
\* analyze_grid or analyze_transform: the accumulated lists hold the patterns
\* of that invocation, each exactly once; after one analyze_transform the
\* accumulated meta list holds one meta pattern per conditional value mapping
\* and per object mapping, and after one analyze_grid every accumulated list
\* is as long as the returned list of its level.
C27_HierarchyStateScopedToInvocation ==
    InvocationDone =>
        /\ Len(self_hierarchy.meta_patterns) =
               Cardinality(ConditionalValues(transformation_data))
                   + Len(ObjectMappingsOf(transformation_data))
        /\ \A n, m \in DOMAIN self_hierarchy.meta_patterns :
               self_hierarchy.meta_patterns[n] = self_hierarchy.meta_patterns[m] => n = m
        /\ invocation.method = "analyze_grid" =>
               /\ Len(self_hierarchy.atomic_patterns) = Len(hierarchy.atomic)
               /\ Len(self_hierarchy.composite_patterns) = Len(hierarchy.composite)
               /\ Len(self_hierarchy.structural_patterns) = Len(hierarchy.structural)
               /\ Len(self_hierarchy.meta_patterns) = Len(hierarchy.meta)


\* the object of the list `candidates` matched with obj: the first one of the
\* best score, when that score is greater than zero
MatchedIn(obj, candidates) ==
    {j \in DOMAIN candidates :
        /\ MatchScore(obj, candidates[j]) > 0
        /\ \A k \in DOMAIN candidates :
               /\ MatchScore(obj, candidates[k]) <= MatchScore(obj, candidates[j])
               /\ k < j => MatchScore(obj, candidates[k]) < MatchScore(obj, candidates[j])}

\* the displacement from the center of obj1 to the center of obj2, doubled
Displacement(obj1, obj2) ==
    <<obj2.center[1] - obj1.center[1], obj2.center[2] - obj1.center[2]>>

\* C28: the relative-position analysis covers every pair of input objects
\* that both have a match in the output (score greater than zero, the first
\* one on ties): whenever the displacement between the two centers differs
\* between input and output, an entry keyed by the two object values is
\* recorded, whether or not input and output hold equally many objects.
C28_RelativePositionsCoverMatchedPairs ==
    Analysed =>
        LET input_objects == get_objects(training[1].input)
            output_objects == get_objects(training[1].output)
            recorded == transforms[1].spatial_transforms.relative_positions
        IN \A i, j \in DOMAIN input_objects :
               i < j =>
                   \A m1 \in MatchedIn(input_objects[i], output_objects) :
                   \A m2 \in MatchedIn(input_objects[j], output_objects) :
                       Displacement(input_objects[i], input_objects[j])
                           # Displacement(output_objects[m1], output_objects[m2])
                       => \E n \in DOMAIN recorded :
                              recorded[n].objects =
                                  <<input_objects[i].value, input_objects[j].value>>


\* the surviving value mapping of v is direct
HasDirectMapping(v) ==
    /\ v \in DOMAIN consistent.value_mappings
    /\ consistent.value_mappings[v].type = "direct"

\* C29: step 2 applies the surviving direct value mappings simultaneously:
\* every cell whose value before the step is v, with the surviving direct
\* mapping v to w, has the value w after the step, also when w is itself the
\* key of another surviving mapping (the swap {1 to 2, 2 to 1} exchanges the
\* two values).
C29_DirectMappingsSimultaneous ==
    [][(pc = "apply_values" /\ pc' = "apply_objects") =>
           \A p \in Cells(prediction) :
               HasDirectMapping(prediction[p[1]][p[2]]) =>
                   prediction'[p[1]][p[2]] =
                       consistent.value_mappings[prediction[p[1]][p[2]]].to]_vars


\* the surviving object-transform entries, and the objects of the grid that
\* step 3 rewrites: those whose value is the input value of an entry
SurvivingMappings == consistent.object_transforms.mappings
Rewritten(obj) ==
    \E k \in DOMAIN SurvivingMappings : SurvivingMappings[k].input_value = obj.value
InBox(p, obj) ==
    /\ obj.min_r <= p[1] /\ p[1] <= obj.max_r
    /\ obj.min_c <= p[2] /\ p[2] <= obj.max_c

\* C30: step 3 changes only cells of the objects it rewrites: every cell of
\* an object that is not rewritten keeps its value, also inside the bounding
\* box of a rewritten object, and every cell outside the bounding boxes of
\* the rewritten objects is unchanged.
C30_ObjectStepKeepsOtherCells ==
    [][(pc = "apply_objects" /\ pc' = "apply_relative") =>
           LET objs == get_objects(prediction)
           IN /\ \A i \in DOMAIN objs :
                     ~Rewritten(objs[i]) =>
                         \A n \in DOMAIN objs[i].coords :
                             LET p == objs[i].coords[n]
                             IN prediction'[p[1]][p[2]] = prediction[p[1]][p[2]]
              /\ \A p \in Cells(prediction) :
                     (\A i \in DOMAIN objs : Rewritten(objs[i]) => ~InBox(p, objs[i]))
                         => prediction'[p[1]][p[2]] = prediction[p[1]][p[2]]]_vars

====
